---------------------------- MODULE Spec2Model ----------------------------
(***************************************************************************)
(* Liquidaciones KAKIS: the certification bonus fund (globalgap.py), the   *)
(* caliber mapping (correspondencia_calibres.py), the price allocation     *)
(* engine (calculador.py) with its validations (validaciones.py), the      *)
(* reference table (normalizador_anecop.py), the stages of a run           *)
(* (app_service.py) and the exported price file (exportador.py).           *)
(*                                                                         *)
(* Numbers.  The program computes with decimal.Decimal.  A Decimal is      *)
(* modelled as a reduced fraction <<n, d>> with d > 0; sums, products and  *)
(* quotients are exact, which is what Decimal gives while a result has at  *)
(* most 28 significant digits (the default context).  q4 is the only       *)
(* rounding the code applies and is modelled as ROUND_HALF_UP to 4 digits. *)
(* A quotient with no finite decimal expansion (coef = neto / base) is     *)
(* kept exact here, where Decimal keeps its first 28 digits.               *)
(* Kilograms are counted in half kilograms (the float sums of pandas are   *)
(* exact on such values), base prices and 4-digit amounts in 1/10000,      *)
(* campaign amounts in 1/100000, the grade II ratio in 1/100.              *)
(***************************************************************************)
EXTENDS Integers, Sequences, FiniteSets, TLC

(***************************************************************************)
(* Bounds of the model.                                                    *)
(***************************************************************************)
MaxRows == 2
MaxWeek == 2

(***************************************************************************)
(* config.py                                                               *)
(***************************************************************************)
NumCalibres == 12
CALIBRES == 0..(NumCalibres - 1)
DESTRIOS == <<"deslinea", "desmesa", "podrido">>
GRUPOS_COMERCIALES == <<"AAA", "AA", "A">>
CATEGORIAS_COMERCIALES == <<"I", "II">>
\* ROUND_INTERNAL = Decimal("0.0001"): the number of fractional digits of q4
ROUND_INTERNAL_DIGITS == 4

(***************************************************************************)
(* Decimal arithmetic on reduced fractions.                                *)
(***************************************************************************)
Abs(x) == IF x < 0 THEN -x ELSE x

Sign(x) == IF x < 0 THEN -1 ELSE IF x = 0 THEN 0 ELSE 1

RECURSIVE GCD(_, _)
GCD(a, b) == IF b = 0 THEN a ELSE GCD(b, a % b)

RECURSIVE Pow10(_)
Pow10(k) == IF k = 0 THEN 1 ELSE 10 * Pow10(k - 1)

\* The Decimal n/d (d > 0), reduced.
Dec(n, d) ==
    LET g == GCD(Abs(n), d)
    IN  IF n = 0 THEN <<0, 1>> ELSE <<n \div g, d \div g>>

DecMul(x, y) ==
    LET g1 == GCD(Abs(x[1]), y[2])
        g2 == GCD(Abs(y[1]), x[2])
    IN  IF x[1] = 0 \/ y[1] = 0 THEN <<0, 1>>
        ELSE <<(x[1] \div g1) * (y[1] \div g2), (x[2] \div g2) * (y[2] \div g1)>>

DecAdd(x, y) ==
    LET g == GCD(x[2], y[2])
    IN  Dec(x[1] * (y[2] \div g) + y[1] * (x[2] \div g), (x[2] \div g) * y[2])

DecNeg(x) == <<-x[1], x[2]>>

DecSub(x, y) == DecAdd(x, DecNeg(y))

DecAbs(x) == <<Abs(x[1]), x[2]>>

\* x / y for y # 0
DecDiv(x, y) ==
    DecMul(x, IF y[1] < 0 THEN <<-y[2], -y[1]>> ELSE <<y[2], y[1]>>)

\* The order of a/b and c/d (b, d > 0) as -1, 0 or 1, by comparing the integer
\* parts and then the reciprocals of the fractional parts
RECURSIVE CmpFrac(_, _, _, _)
CmpFrac(a, b, c, d) ==
    LET qa == a \div b
        qc == c \div d
        ra == a % b
        rc == c % d
    IN  IF qa # qc THEN (IF qa < qc THEN -1 ELSE 1)
        ELSE IF ra = 0 /\ rc = 0 THEN 0
        ELSE IF ra = 0 THEN -1
        ELSE IF rc = 0 THEN 1
        ELSE CmpFrac(d, rc, b, ra)

DecLe(x, y) == CmpFrac(x[1], x[2], y[1], y[2]) <= 0

DecLt(x, y) == CmpFrac(x[1], x[2], y[1], y[2]) < 0

\* n/d rounded to an integer, ties away from zero (ROUND_HALF_UP), d > 0
RoundHalfUp(n, d) == Sign(n) * ((2 * Abs(n) + d) \div (2 * d))

\* config.q4: value.quantize(Decimal("0.0001"), rounding=ROUND_HALF_UP);
\* the result is a Decimal with 4 fractional digits
q4(value) ==
    LET scale == Pow10(ROUND_INTERNAL_DIGITS)
        g     == GCD(scale, value[2])
    IN  Dec(RoundHalfUp(value[1] * (scale \div g), value[2] \div g), scale)

\* A sequence given by a function constructor, as a tuple of its values
Tabla(filas) == filas \o <<>>

\* sum(serie, Decimal("0"))
RECURSIVE DecSumT(_)
DecSumT(serie) ==
    IF serie = <<>> THEN <<0, 1>>
    ELSE DecAdd(Head(serie), DecSumT(Tail(serie)))

DecSum(serie) == DecSumT(Tabla(serie))

\* Input values in the units of the module header, as Decimals.
Kilos(k2) == Dec(k2, 2)
Precio(p4) == Dec(p4, 10000)
Importe(m5) == Dec(m5, 100000)
Ratio(r100) == Dec(r100, 100)

\* utils.parse_decimal on the values the tables hold: None gives 0, a Decimal
\* is returned as it is and an int or float v gives Decimal(str(v)), the same
\* number.  (Text values with separators are not part of the tables here.)
\* The NaN of a float column (a key without partner after a left merge) stays
\* NaN: Decimal(str(nan)).
None == <<"None">>
NaN == <<"NaN">>
parse_decimal(value) == IF value = None THEN <<0, 1>> ELSE value

Range(s) == {s[i] : i \in DOMAIN s}

\* The concatenation of a sequence of sequences
RECURSIVE FlattenT(_)
FlattenT(ss) == IF ss = <<>> THEN <<>> ELSE Head(ss) \o FlattenT(Tail(ss))

Flatten(ss) == FlattenT(Tabla(ss))

\* The sum of a sequence of integers
RECURSIVE SumIntT(_)
SumIntT(s) == IF s = <<>> THEN 0 ELSE Head(s) + SumIntT(Tail(s))

SumInt(s) == SumIntT(Tabla(s))

\* [f(s[1]), ..., f(s[n])]
MapSeq(s, f(_)) == Tabla([i \in 1..Len(s) |-> f(s[i])])

(***************************************************************************)
(* Text, as sequences of characters: str.strip, str.upper, str.lower.      *)
(* OrdA stands for the one character U+00AA (feminine ordinal indicator),  *)
(* which has no upper case form.                                           *)
(***************************************************************************)
OrdA == "<ord-a>"

LowerLetters == <<"a", "b", "c", "d", "e", "f", "g", "h", "i", "j", "k", "l", "m",
                  "n", "o", "p", "q", "r", "s", "t", "u", "v", "w", "x", "y", "z">>
UpperLetters == <<"A", "B", "C", "D", "E", "F", "G", "H", "I", "J", "K", "L", "M",
                  "N", "O", "P", "Q", "R", "S", "T", "U", "V", "W", "X", "Y", "Z">>

UpperChar(c) ==
    IF \E i \in DOMAIN LowerLetters : LowerLetters[i] = c
    THEN UpperLetters[CHOOSE i \in DOMAIN LowerLetters : LowerLetters[i] = c]
    ELSE c

LowerChar(c) ==
    IF \E i \in DOMAIN UpperLetters : UpperLetters[i] = c
    THEN LowerLetters[CHOOSE i \in DOMAIN UpperLetters : UpperLetters[i] = c]
    ELSE c

str_upper(s) == [i \in DOMAIN s |-> UpperChar(s[i])]

str_lower(s) == [i \in DOMAIN s |-> LowerChar(s[i])]

RECURSIVE LStrip(_)
LStrip(s) == IF s # <<>> /\ Head(s) = " " THEN LStrip(Tail(s)) ELSE s

RECURSIVE RStrip(_)
RStrip(s) ==
    IF s # <<>> /\ s[Len(s)] = " " THEN RStrip(SubSeq(s, 1, Len(s) - 1)) ELSE s

str_strip(s) == RStrip(LStrip(s))

\* fillna("") of a text column
fillna(v) == IF v = None THEN <<>> ELSE v

\* The order of Python on str, for the characters the tables hold
Alfabeto ==
    <<" ", "0", "1", "2", "3", "4", "5", "6", "7", "8", "9">>
    \o UpperLetters \o LowerLetters \o <<OrdA>>

Ord(c) == CHOOSE i \in DOMAIN Alfabeto : Alfabeto[i] = c

RECURSIVE StrLe(_, _)
StrLe(a, b) ==
    IF a = <<>> THEN TRUE
    ELSE IF b = <<>> THEN FALSE
    ELSE IF Head(a) # Head(b) THEN Ord(Head(a)) < Ord(Head(b))
    ELSE StrLe(Tail(a), Tail(b))

\* sorted(values) of a set of texts
RECURSIVE SortedStr(_)
SortedStr(S) ==
    IF S = {} THEN <<>>
    ELSE LET m == CHOOSE x \in S : \A y \in S : StrLe(x, y)
         IN  <<m>> \o SortedStr(S \ {m})

(***************************************************************************)
(* correspondencia_calibres.py                                             *)
(***************************************************************************)
\* f"c{idx}"
BaseKey(idx) ==
    LET digit(d) == <<"0", "1", "2", "3", "4", "5", "6", "7", "8", "9">>[d + 1]
    IN  IF idx < 10 THEN <<"c", digit(idx)>>
        ELSE <<"c", digit(idx \div 10), digit(idx % 10)>>

\* The number of leading "A" of a token
RECURSIVE LeadingAs(_)
LeadingAs(s) == IF s # <<>> /\ Head(s) = "A" THEN 1 + LeadingAs(Tail(s)) ELSE 0

\* _PATTERN = ^(AAA|AA|A)\s*(1[<ord-a>A]|2[<ord-a>A])$, IGNORECASE, on an upper-cased token: the
\* match as <<grupo, grade digit>>, or <<>> when the token does not match.
PatternMatch(token) ==
    LET n    == LeadingAs(token)
        rest == LStrip(SubSeq(token, n + 1, Len(token)))
    IN  IF /\ n \in 1..3
           /\ Len(rest) = 2
           /\ rest[1] \in {"1", "2"}
           /\ rest[2] \in {OrdA, "A"}
        THEN <<GRUPOS_COMERCIALES[4 - n], rest[1]>>
        ELSE <<>>

\* by_base.get(key, ""): the KAKIS of the last row whose BASE is key
ByBaseGet(normalized, key) ==
    LET hits == {i \in DOMAIN normalized : normalized[i].BASE = key}
    IN  IF hits = {} THEN <<>>
        ELSE normalized[CHOOSE i \in hits : \A j \in hits : j <= i].KAKIS

\* The rows build_calibre_mapping appends, in the order of CALIBRES
MappingRows(correspondencias) ==
    LET normalized ==
            [i \in DOMAIN correspondencias |->
                [BASE  |-> str_lower(str_strip(correspondencias[i].BASE)),
                 KAKIS |-> str_upper(str_strip(correspondencias[i].KAKIS))]]
        row(k) ==
            LET match == PatternMatch(ByBaseGet(normalized, BaseKey(k - 1)))
            IN  IF match = <<>> THEN <<>>
                ELSE IF match[1] \notin Range(GRUPOS_COMERCIALES) THEN <<>>
                ELSE << [calibre   |-> k - 1,
                         grupo     |-> match[1],
                         categoria |-> IF match[2] = "1" THEN "I" ELSE "II"] >>
    IN  Flatten([k \in 1..NumCalibres |-> row(k)])

\* build_calibre_mapping: the mapping, or ValueError when it is empty
build_calibre_mapping(correspondencias) ==
    LET mapped == MappingRows(correspondencias)
    IN  IF mapped = <<>>
        THEN [estado |-> "error", error |-> "ValueError", mapped |-> <<>>]
        ELSE [estado |-> "ok", error |-> "", mapped |-> mapped]
(***************************************************************************)
(* validaciones.py                                                         *)
(***************************************************************************)
Requeridas ==
    {"Apodo", "semana", "Boleta", "Cal0", "Cal1", "Cal2", "Cal6", "Cal7", "Cal8",
     "DesLinea", "DesMesa", "Podrido"}

\* validar_columnas_minimas_pesosfres: TRUE when it returns, FALSE when it
\* raises ValidationError
validar_columnas_minimas_pesosfres(cols) ==
    {col \in Requeridas : col \notin cols} = {}

\* validar_semanas_kilos_vs_anecop
validar_semanas_kilos_vs_anecop(kilos_semanas, anecop_semanas) ==
    kilos_semanas \ anecop_semanas = {}

\* validar_referencia
validar_referencia(ref) == ~ DecLe(ref, <<0, 1>>)

\* validar_total_rel
validar_total_rel(total_rel) == ~ DecLe(total_rel, <<0, 1>>)

\* The default tolerancia of validar_cuadre, Decimal("0.01")
Tolerancia == Dec(1, 100)

\* validar_cuadre: the descuadre it returns
Descuadre(recon, objetivo) == DecAbs(DecSub(recon, objetivo))

\* A validar_cuadre that accepts every mismatch
validar_cuadre_sin_tolerancia(recon, objetivo) == TRUE

\* validar_cuadre: TRUE when it returns, FALSE when it raises ValidationError
validar_cuadre(recon, objetivo) ==
    ~ DecLt(Tolerancia, Descuadre(recon, objetivo))

(***************************************************************************)
(* calculador.py                                                           *)
(***************************************************************************)
\* The column names melt reads: id_vars and value_vars of both melts
ColumnasMelt ==
    {"semana", "boleta", "deslinea", "desmesa", "podrido",
     "cal0", "cal1", "cal2", "cal3", "cal4", "cal5",
     "cal6", "cal7", "cal8", "cal9", "cal10", "cal11"}

\* The order of groupby and sort_values on the group and grade names
GruposOrdenados == <<"A", "AA", "AAA">>
CategoriasOrdenadas == <<"I", "II">>

\* A finite set of integers in increasing order
RECURSIVE Sorted(_)
Sorted(S) ==
    IF S = {} THEN <<>>
    ELSE LET m == CHOOSE x \in S : \A y \in S : x <= y
         IN  <<m>> \o Sorted(S \ {m})

\* long after melt and the inner merge with mapping, summed by
\* (semana, grupo, categoria): the kilos (in half kilograms) of one key
KilosDe(pesos, mapping, semana, grupo, categoria) ==
    SumInt([i \in 1..Len(pesos) |->
        IF pesos[i].semana # semana THEN 0
        ELSE SumInt([j \in 1..Len(mapping) |->
                IF mapping[j].grupo = grupo /\ mapping[j].categoria = categoria
                THEN pesos[i].cal[mapping[j].calibre]
                ELSE 0])])

\* The groups of long: the keys that have a row after the inner merge
HayFila(pesos, mapping, semana, grupo, categoria) ==
    /\ \E i \in 1..Len(pesos) : pesos[i].semana = semana
    /\ \E j \in 1..Len(mapping) :
          mapping[j].grupo = grupo /\ mapping[j].categoria = categoria

\* kilos_group: the rows with kilos > 0, in the order of the groupby keys
kilos_group(pesos, mapping) ==
    LET semanas == Sorted({pesos[i].semana : i \in 1..Len(pesos)})
        fila(s, g, c) ==
            IF /\ HayFila(pesos, mapping, semanas[s], GruposOrdenados[g],
                          CategoriasOrdenadas[c])
               /\ KilosDe(pesos, mapping, semanas[s], GruposOrdenados[g],
                          CategoriasOrdenadas[c]) > 0
            THEN << [semana    |-> semanas[s],
                     grupo     |-> GruposOrdenados[g],
                     categoria |-> CategoriasOrdenadas[c],
                     kilos     |-> KilosDe(pesos, mapping, semanas[s],
                                           GruposOrdenados[g], CategoriasOrdenadas[c])] >>
            ELSE <<>>
    IN  Flatten([s \in 1..Len(semanas) |->
            Flatten([g \in 1..3 |-> Flatten([c \in 1..2 |-> fila(s, g, c)])])])

\* The hash seed of the Python process: the order in which a set is iterated
\* depends on it
VARIABLE hash_seed
HashSeeds == {0, 1}

\* for sem in anecop_semanas, without sorted: the first common week in the
\* order in which the process iterates the set
SemanaRef_sin_sorted(kilos_semanas, anecop_semanas) ==
    LET comunes == anecop_semanas \cap kilos_semanas
    IN  IF comunes = {} THEN 0
        ELSE IF hash_seed = 0
            THEN CHOOSE sem \in comunes : \A otra \in comunes : sem <= otra
        ELSE CHOOSE sem \in comunes : \A otra \in comunes : otra <= sem

\* A reference week taken from the reference table alone
SemanaRef_solo_anecop(kilos_semanas, anecop_semanas) ==
    IF anecop_semanas = {} THEN 0
    ELSE CHOOSE sem \in anecop_semanas : \A otra \in anecop_semanas : sem <= otra

\* The last week of sorted(anecop_semanas) that is in kilos_semanas
SemanaRef_ultima(kilos_semanas, anecop_semanas) ==
    LET comunes == anecop_semanas \cap kilos_semanas
    IN  IF comunes = {} THEN 0
        ELSE CHOOSE sem \in comunes : \A otra \in comunes : otra <= sem

\* semana_ref: the first week of sorted(anecop_semanas) that is in
\* kilos_semanas; 0 stands for None
SemanaRef(kilos_semanas, anecop_semanas) ==
    LET comunes == anecop_semanas \cap kilos_semanas
    IN  IF comunes = {} THEN 0
        ELSE CHOOSE sem \in comunes : \A otra \in comunes : sem <= otra

\* The rows of anecop with semana = semana_ref, of any group
FilasRef_sin_grupo(anecop, semana_ref) ==
    SelectSeq(anecop, LAMBDA row : row.semana = semana_ref)

\* The rows of anecop with semana = semana_ref and grupo = "AAA"
FilasRef(anecop, semana_ref) ==
    SelectSeq(anecop, LAMBDA row : row.semana = semana_ref /\ row.grupo = "AAA")

\* anecop["rel"]: q4(parse_decimal(p) / ref)
Rel(precio_base, ref) == q4(DecDiv(parse_decimal(precio_base), ref))

\* A grade II factor that is not rounded
RelFinalII_sin_q4(rel, ratio) == DecMul(rel, ratio)

\* rel_final of the grade II row: q4(row["rel"] * ratio)
RelFinalII(rel, ratio) == q4(DecMul(rel, ratio))

\* rel_df: for every row of anecop a grade I row and a grade II row
rel_df(anecop, ref, ratio) ==
    Flatten([i \in 1..Len(anecop) |->
        << [semana    |-> anecop[i].semana,
            grupo     |-> anecop[i].grupo,
            categoria |-> "I",
            rel_final |-> Rel(anecop[i].precio_base, ref)],
           [semana    |-> anecop[i].semana,
            grupo     |-> anecop[i].grupo,
            categoria |-> "II",
            rel_final |-> RelFinalII(Rel(anecop[i].precio_base, ref),
                                     ratio)] >>])

\* A merge that does not validate its right keys
ClavesSinValidar(claves) == TRUE

\* validate="m:1": no key of the right table occurs twice
ClavesUnicas(claves) ==
    \A i, j \in 1..Len(claves) : claves[i] = claves[j] => i = j

ClaveSGC(row) == <<row.semana, row.grupo, row.categoria>>

\* The value of column col in the row of the right table with the key of
\* the left row (how="left"): NaN when there is none
Cruce(tabla, clave, col) ==
    LET hits == {i \in 1..Len(tabla) : ClaveSGC(tabla[i]) = clave}
    IN  IF hits = {} THEN NaN ELSE tabla[CHOOSE i \in hits : TRUE][col]

\* merged: kilos_group with rel_final, kilos_dec and rel_kilos
merged(kilos, rel) ==
    Tabla([i \in 1..Len(kilos) |->
        LET rel_final == Cruce(rel, ClaveSGC(kilos[i]), "rel_final")
        IN  [semana    |-> kilos[i].semana,
             grupo     |-> kilos[i].grupo,
             categoria |-> kilos[i].categoria,
             kilos     |-> kilos[i].kilos,
             kilos_dec |-> parse_decimal(Kilos(kilos[i].kilos)),
             rel_final |-> rel_final,
             rel_kilos |-> IF parse_decimal(rel_final) = NaN THEN NaN
                           ELSE q4(DecMul(parse_decimal(Kilos(kilos[i].kilos)),
                                          parse_decimal(rel_final)))]])

\* importe_destrios: the sum over rows and reject columns of
\* q4(parse_decimal(kilos) * precios_des[destrio])
importe_destrios(pesos, precios_des) ==
    DecSum(Flatten([i \in 1..Len(pesos) |->
        [d \in 1..Len(DESTRIOS) |->
            q4(DecMul(parse_decimal(Kilos(pesos[i].des[d])),
                      precios_des[d]))]]))

\* neto_comercial
neto_comercial(bruto, fondo_gg, otros, importe) ==
    q4(DecSub(DecSub(DecSub(bruto, fondo_gg), otros), importe))

\* precio of one row of rel_df: parse_decimal(row["rel_final"]) * coef
PrecioFinal(rel_final, coef) == DecMul(parse_decimal(rel_final), coef)

\* final_rows in the order of rel_df, without sort_values
precios_df_sin_ordenar(rel, coef) ==
    [k \in 1..Len(rel) |->
        [semana       |-> rel[k].semana,
         calibre      |-> rel[k].grupo,
         categoria    |-> rel[k].categoria,
         precio_final |-> PrecioFinal(rel[k].rel_final, coef)]]

\* precios_df: final_rows sorted by (semana, calibre, categoria)
precios_df(rel, coef) ==
    LET semanas == Sorted({rel[i].semana : i \in 1..Len(rel)})
        filas(s, g, c) ==
            LET sel == SelectSeq(rel, LAMBDA row :
                          ClaveSGC(row) = <<semanas[s], GruposOrdenados[g],
                                            CategoriasOrdenadas[c]>>)
            IN  [k \in 1..Len(sel) |->
                    [semana       |-> sel[k].semana,
                     calibre      |-> sel[k].grupo,
                     categoria    |-> sel[k].categoria,
                     precio_final |-> PrecioFinal(sel[k].rel_final, coef)]]
    IN  Flatten([s \in 1..Len(semanas) |->
            Flatten([g \in 1..3 |-> Flatten([c \in 1..2 |-> filas(s, g, c)])])])

\* recon: the sum of kilos_dec * precio_final over merged joined with
\* precios_df, plus importe_destrios
Recon(merged_rows, precios, importe) ==
    DecAdd(DecSum([i \in 1..Len(merged_rows) |->
                DecMul(merged_rows[i].kilos_dec,
                       precios[CHOOSE k \in 1..Len(precios) :
                                  <<precios[k].semana, precios[k].calibre,
                                    precios[k].categoria>>
                                  = ClaveSGC(merged_rows[i])].precio_final)]),
           importe)

\* The weeks of table (weeks with commercial kilos) whose pivoted reference
\* row lacks AAA, AA or A
missing_rel_weeks(merged_rows, anecop) ==
    {s \in {merged_rows[i].semana : i \in 1..Len(merged_rows)} :
        \E g \in Range(GRUPOS_COMERCIALES) :
            ~ \E i \in 1..Len(anecop) : anecop[i].semana = s /\ anecop[i].grupo = g}

\* What a call of calcular_modelo_final that raises leaves
Fallo(error) ==
    [estado |-> "error", error |-> error, motivo |-> "",
     precios_df |-> <<>>, rel_df |-> <<>>,
     merged |-> <<>>, coef |-> <<0, 1>>, neto_obj |-> <<0, 1>>,
     total_rel |-> <<0, 1>>, importe_destrios |-> <<0, 1>>,
     descuadre |-> <<0, 1>>, recon |-> <<0, 1>>, objetivo |-> <<0, 1>>,
     semana_ref |-> 0, total_kg_comerciales |-> 0]

\* The exception of one raise statement: its type and what its message is
\* about
FalloPor(error, motivo) == [Fallo(error) EXCEPT !.motivo = motivo]

\* calcular_modelo_final: the ResultadoCalculo it returns or the exception
\* it raises
calcular_modelo_final(cols, pesos, mapping, anecop, precios_des, bruto, otros, fondo_gg, ratio) ==
    LET kilos          == kilos_group(pesos, mapping)
        kilos_semanas  == {kilos[i].semana : i \in 1..Len(kilos)}
        anecop_semanas == {anecop[i].semana : i \in 1..Len(anecop)}
        semana_ref     == SemanaRef(kilos_semanas, anecop_semanas)
        filas_ref      == FilasRef(anecop, semana_ref)
        ref            == parse_decimal(filas_ref[1].precio_base)
        rel            == rel_df(anecop, ref, ratio)
        merged_rows    == merged(kilos, rel)
        importe        == importe_destrios(pesos, precios_des)
        neto           == neto_comercial(bruto, fondo_gg,
                                         otros, importe)
        base_relativa  == DecSum([i \in 1..Len(merged_rows) |->
                                     merged_rows[i].rel_kilos])
        coef           == DecDiv(neto, base_relativa)
        precios        == precios_df(rel, coef)
        recon          == Recon(merged_rows, precios, importe)
        objetivo       == DecSub(DecSub(bruto, fondo_gg), otros)
    IN  IF ~ validar_columnas_minimas_pesosfres(cols)
            THEN FalloPor("ValidationError", "columnas minimas")
        ELSE IF ~ (ColumnasMelt \subseteq cols)
            THEN FalloPor("KeyError", "melt")
        ELSE IF ~ ClavesUnicas([j \in 1..Len(mapping) |-> mapping[j].calibre])
            THEN FalloPor("MergeError", "calibre_map")
        ELSE IF ~ validar_semanas_kilos_vs_anecop(kilos_semanas, anecop_semanas)
            THEN FalloPor("ValidationError", "semanas sin ANECOP")
        ELSE IF semana_ref = 0
            THEN FalloPor("ValueError", "sin semana de referencia")
        ELSE IF filas_ref = <<>>
            THEN FalloPor("IndexError", "iloc")
        ELSE IF ~ validar_referencia(ref)
            THEN FalloPor("ValidationError", "precio AAA <= 0")
        ELSE IF ~ ClavesUnicas([k \in 1..Len(rel) |-> ClaveSGC(rel[k])])
            THEN FalloPor("MergeError", "rel_df")
        ELSE IF \E i \in 1..Len(merged_rows) : merged_rows[i].rel_kilos = NaN
            THEN FalloPor("InvalidOperation", "rel_final NaN")
        ELSE IF ~ validar_total_rel(base_relativa)
            THEN FalloPor("ValidationError", "total relativo <= 0")
        ELSE IF ~ validar_cuadre(recon, objetivo)
            THEN FalloPor("ValidationError", "descuadre")
        ELSE IF \E g \in Range(GRUPOS_COMERCIALES) :
                    ~ \E i \in 1..Len(anecop) : anecop[i].grupo = g
            THEN FalloPor("KeyError", "pivot")
        ELSE IF missing_rel_weeks(merged_rows, anecop) # {}
            THEN FalloPor("ValueError", "semanas con kilos sin ANECOP")
        ELSE [estado |-> "ok", error |-> "", motivo |-> "", precios_df |-> precios, rel_df |-> rel,
              merged |-> merged_rows, coef |-> coef, neto_obj |-> neto,
              total_rel |-> base_relativa, importe_destrios |-> importe,
              descuadre |-> Descuadre(recon, objetivo), recon |-> recon,
              objetivo |-> objetivo, semana_ref |-> semana_ref,
              total_kg_comerciales |->
                  SumInt([i \in 1..Len(merged_rows) |-> merged_rows[i].kilos])]
(***************************************************************************)
(* globalgap.py                                                            *)
(***************************************************************************)
\* columns.str.strip().str.lower() on the column names the tables carry
NombresPesosFres ==
    <<"Apodo", "Boleta", "IDSocio", "DesLinea", "DesMesa", "Podrido",
      "Cal0", "Cal1", "Cal2", "Cal3", "Cal4", "Cal5",
      "Cal6", "Cal7", "Cal8", "Cal9", "Cal10", "Cal11">>
NombresMinusculas ==
    <<"apodo", "boleta", "idsocio", "deslinea", "desmesa", "podrido",
      "cal0", "cal1", "cal2", "cal3", "cal4", "cal5",
      "cal6", "cal7", "cal8", "cal9", "cal10", "cal11">>

ColLower(c) ==
    IF \E i \in DOMAIN NombresPesosFres : NombresPesosFres[i] = c
    THEN NombresMinusculas[CHOOSE i \in DOMAIN NombresPesosFres : NombresPesosFres[i] = c]
    ELSE c

\* The column names calcular_fondo_globalgap reads from pesos_df and deepp_df
\* ("campana" stands for the column name spelled with n-tilde)
ColumnasCalibres ==
    {"cal0", "cal1", "cal2", "cal3", "cal4", "cal5",
     "cal6", "cal7", "cal8", "cal9", "cal10", "cal11"}
ColumnasDeepp == {"idsocio", "certificacion", "nivelglobal"}
CamposAmbito == <<"campana", "empresa", "cultivo">>

\* The accepted certification label
GLOBAL_GAP == <<"G", "L", "O", "B", "A", "L", " ", "G", "A", "P">>

\* Decimal products and sums with NaN operands (quiet NaN: the result is NaN)
DecMulN(x, y) == IF x = NaN \/ y = NaN THEN NaN ELSE DecMul(x, y)

DecSumN(serie) ==
    IF \E i \in DOMAIN serie : serie[i] = NaN THEN NaN ELSE DecSum(serie)

\* pesos_df["kilos_comerciales"] of one row: the sum of the twelve caliber
\* columns after parse_decimal
kilos_comerciales(row) ==
    DecSum([c \in 1..NumCalibres |-> parse_decimal(Kilos(row.cal[c - 1]))])

\* kilos_socios_df: kilos_comerciales summed by the stripped idsocio, in the
\* order of the groupby keys
kilos_socios_df(pesos) ==
    LET ids == SortedStr({str_strip(pesos[i].idsocio) : i \in 1..Len(pesos)})
    IN  Tabla([k \in 1..Len(ids) |->
            [idsocio |-> ids[k],
             kilos_comerciales |->
                 DecSum(Flatten([i \in 1..Len(pesos) |->
                     IF str_strip(pesos[i].idsocio) = ids[k]
                     THEN <<kilos_comerciales(pesos[i])>> ELSE <<>>]))]])

\* campana, empresa, cultivo of the weight table: the value of the first row
\* when the table has the column and is not empty, else None (<<v>> for a
\* value v, <<>> for None)
AmbitoPesos(cols, pesos, campo) ==
    IF campo \in {ColLower(c) : c \in cols} /\ pesos # <<>>
    THEN <<pesos[1][campo]>> ELSE <<>>

\* A normalisation of deepp_df that keeps the case of the label
deepp_sin_upper(deepp) ==
    Tabla([i \in 1..Len(deepp) |->
        [idsocio            |-> str_strip(deepp[i].idsocio),
         certificacion_norm |-> str_strip(fillna(deepp[i].certificacion)),
         nivelglobal        |-> str_strip(fillna(deepp[i].nivelglobal)),
         campana            |-> deepp[i].campana,
         empresa            |-> deepp[i].empresa,
         cultivo            |-> deepp[i].cultivo]])

\* deepp_df with idsocio, certificacion_norm and nivelglobal normalised
deepp_normalizado(deepp) ==
    Tabla([i \in 1..Len(deepp) |->
        [idsocio            |-> str_strip(deepp[i].idsocio),
         certificacion_norm |-> str_upper(str_strip(fillna(deepp[i].certificacion))),
         nivelglobal        |-> str_strip(fillna(deepp[i].nivelglobal)),
         campana            |-> deepp[i].campana,
         empresa            |-> deepp[i].empresa,
         cultivo            |-> deepp[i].cultivo]])

\* One of the three filters of deepp_filtrado
FiltroAmbito(tabla, deepp_cols, campo, valor) ==
    IF valor # <<>> /\ campo \in {ColLower(c) : c \in deepp_cols}
    THEN SelectSeq(tabla, LAMBDA row : row[campo] = valor[1])
    ELSE tabla

\* deepp_filtrado
deepp_filtrado(cols, pesos, deepp_cols, deepp) ==
    FiltroAmbito(
        FiltroAmbito(
            FiltroAmbito(deepp_normalizado(deepp), deepp_cols, "campana",
                         AmbitoPesos(cols, pesos, "campana")),
            deepp_cols, "empresa", AmbitoPesos(cols, pesos, "empresa")),
        deepp_cols, "cultivo", AmbitoPesos(cols, pesos, "cultivo"))

\* _distinct_non_empty, as the set of the values it returns sorted
distinct_non_empty(values) == {str_strip(fillna(v)) : v \in values} \ {<<>>}

\* The rows _build_inconsistencias_df gives for one column, by idsocio
Inconsistencias(filtrado, campo) ==
    LET ids == SortedStr({filtrado[i].idsocio : i \in 1..Len(filtrado)})
    IN  Flatten([k \in 1..Len(ids) |->
            LET valores == distinct_non_empty(
                               {filtrado[i][campo] : i \in
                                   {j \in 1..Len(filtrado) : filtrado[j].idsocio = ids[k]}})
            IN  IF Cardinality(valores) > 1
                THEN << [idsocio |-> ids[k], campo |-> campo,
                         valores_distintos |-> SortedStr(valores)] >>
                ELSE <<>>])

\* An inconsistency table that never has a row
sin_inconsistencias(filtrado) == <<>>

\* _build_inconsistencias_df
build_inconsistencias_df(filtrado) ==
    IF filtrado = <<>> THEN <<>>
    ELSE Inconsistencias(filtrado, "nivelglobal")
         \o Inconsistencias(filtrado, "certificacion_norm")

\* maestro_socios: for every idsocio the values of its first row
maestro_socios(filtrado) ==
    LET ids == SortedStr({filtrado[i].idsocio : i \in 1..Len(filtrado)})
    IN  Tabla([k \in 1..Len(ids) |->
            LET first == CHOOSE i \in 1..Len(filtrado) :
                            /\ filtrado[i].idsocio = ids[k]
                            /\ \A j \in 1..(i - 1) : filtrado[j].idsocio # ids[k]
            IN  [idsocio            |-> ids[k],
                 certificacion_norm |-> filtrado[first].certificacion_norm,
                 nivelglobal        |-> filtrado[first].nivelglobal]])

\* socios_gg
socios_gg(maestro) ==
    SelectSeq(maestro, LAMBDA row : row.certificacion_norm = GLOBAL_GAP)

\* mnivel_df with nivel stripped and indice parsed
mnivel_normalizado(mnivel) ==
    Tabla([i \in 1..Len(mnivel) |->
        [nivel  |-> str_strip(fillna(mnivel[i].nivel)),
         indice |-> parse_decimal(mnivel[i].indice)]])

\* bon_eur: the first bonificacion of BonGlobal, 0 when it has no row
bon_eur(bon_global) ==
    IF bon_global = <<>> THEN <<0, 1>>
    ELSE parse_decimal(bon_global[1].bonificacion)

\* fondo_soc of one row of merged_all
fondo_soc(kilos, bonificacion_eur, indice) ==
    DecMulN(DecMulN(parse_decimal(kilos), parse_decimal(bonificacion_eur)),
            parse_decimal(indice))

\* merged_all: kilos_socios_df left-merged with socios_gg on idsocio and with
\* mnivel_df on nivelglobal = nivel, one row for every matching level row
merged_all(kilos_socios, gg, niveles, bonificacion_eur) ==
    Flatten([k \in 1..Len(kilos_socios) |->
        LET socio == SelectSeq(gg, LAMBDA row : row.idsocio = kilos_socios[k].idsocio)
            nivelglobal == IF socio = <<>> THEN NaN ELSE socio[1].nivelglobal
            pares == SelectSeq(niveles, LAMBDA row : row.nivel = nivelglobal)
            fila(indice) ==
                [idsocio           |-> kilos_socios[k].idsocio,
                 nivelglobal       |-> nivelglobal,
                 indice            |-> parse_decimal(indice),
                 bonificacion_eur  |-> bonificacion_eur,
                 kilos_comerciales |-> kilos_socios[k].kilos_comerciales,
                 fondo_soc         |-> fondo_soc(kilos_socios[k].kilos_comerciales,
                                                 bonificacion_eur, indice)]
        IN  IF pares = <<>> THEN <<fila(NaN)>>
            ELSE [m \in 1..Len(pares) |-> fila(pares[m].indice)]])

\* merged: the rows of merged_all whose idsocio is in socios_gg
merged_gg(todos, gg) ==
    SelectSeq(todos, LAMBDA row : \E i \in 1..Len(gg) : gg[i].idsocio = row.idsocio)

\* An exception list that holds every grower of the weight table
socios_todos(kilos_socios, gg) ==
    SortedStr({kilos_socios[i].idsocio : i \in 1..Len(kilos_socios)})

\* socios_no_gg
socios_no_gg(kilos_socios, gg) ==
    SortedStr({kilos_socios[i].idsocio : i \in 1..Len(kilos_socios)}
              \ {gg[i].idsocio : i \in 1..Len(gg)})

\* audit_df: the socio_sin_gg rows and then the inconsistencies
audit_df(no_gg, inconsistencias) ==
    [i \in 1..Len(no_gg) |-> [tipo |-> "socio_sin_gg", id |-> no_gg[i]]]
    \o [i \in 1..Len(inconsistencias) |->
           [tipo |-> IF inconsistencias[i].campo = "nivelglobal"
                     THEN "inconsistencia_nivelglobal"
                     ELSE "inconsistencia_certificacion_norm",
            id   |-> inconsistencias[i].idsocio]]

FalloGG(error) ==
    [estado |-> "error", error |-> error, fondo_total |-> <<0, 1>>,
     audit_globalgap_socios_df |-> <<>>, audit_df |-> <<>>]

\* The rest of calcular_fondo_globalgap once deepp_filtrado is known
FondoDe(kilos_socios, filtrado, inconsistencias, gg, niveles, bonificacion_eur) ==
    IF \E i \in 1..Len(inconsistencias) : inconsistencias[i].campo = "nivelglobal"
    THEN FalloGG("ValueError")
    ELSE [estado |-> "ok", error |-> "",
          fondo_total |->
              DecSumN(MapSeq(merged_gg(merged_all(kilos_socios, gg, niveles,
                                                  bonificacion_eur), gg),
                             LAMBDA row : row.fondo_soc)),
          audit_globalgap_socios_df |->
              merged_gg(merged_all(kilos_socios, gg, niveles, bonificacion_eur), gg),
          audit_df |-> audit_df(socios_no_gg(kilos_socios, gg), inconsistencias)]

\* calcular_fondo_globalgap: the tuple it returns or the exception it raises
calcular_fondo_globalgap(cols, pesos, deepp_cols, deepp, mnivel, bon_global) ==
    IF ~ (ColumnasCalibres \cup {"idsocio"} \subseteq {ColLower(c) : c \in cols})
        THEN FalloGG("KeyError")
    ELSE IF ~ (ColumnasDeepp \subseteq {ColLower(c) : c \in deepp_cols})
        THEN FalloGG("KeyError")
    ELSE FondoDe(kilos_socios_df(pesos),
                 deepp_filtrado(cols, pesos, deepp_cols, deepp),
                 build_inconsistencias_df(deepp_filtrado(cols, pesos, deepp_cols, deepp)),
                 socios_gg(maestro_socios(deepp_filtrado(cols, pesos, deepp_cols, deepp))),
                 mnivel_normalizado(mnivel),
                 bon_eur(bon_global))

(***************************************************************************)
(* exportador.py                                                           *)
(***************************************************************************)
\* The fractional digits of f"{parse_decimal(x):.5f}"
DECIMALES_PRECIO_FINAL == 5

\* n/d rounded to an integer, ties to the even neighbour (ROUND_HALF_EVEN,
\* the rounding of the default context, which format() applies), d > 0
RoundHalfEven(n, d) ==
    LET entero == Abs(n) \div d
        doble  == 2 * (Abs(n) % d)
    IN  Sign(n) * (IF doble > d \/ (doble = d /\ entero % 2 = 1)
                   THEN entero + 1 ELSE entero)

\* The number a reader of the CSV gets from the text of precio_final:
\* f"{parse_decimal(x):.5f}" with the point replaced by a comma
precio_final_es(x) ==
    LET scale == Pow10(DECIMALES_PRECIO_FINAL)
        g     == GCD(scale, parse_decimal(x)[2])
    IN  Dec(RoundHalfEven(parse_decimal(x)[1] * (scale \div g),
                          parse_decimal(x)[2] \div g), scale)

\* perceco_es: the rows of precios_df as the Perceco file carries them
perceco_es(precios) ==
    [k \in 1..Len(precios) |->
        [semana       |-> precios[k].semana,
         calibre      |-> precios[k].calibre,
         categoria    |-> precios[k].categoria,
         precio_final |-> precio_final_es(precios[k].precio_final)]]

(***************************************************************************)
(* normalizador_anecop.py                                                  *)
(***************************************************************************)
\* _num on the cells of the table: an empty cell gives 0, a number itself
num(value) == IF value = None THEN <<0, 1>> ELSE value

\* data.get(grupo, (0, 0)) of one week: <<kg, valor_fruta>> of the last row
\* of the week with that grupo_anecop
DatoAnecop(sdf, grupo) ==
    LET hits == {i \in 1..Len(sdf) : sdf[i].grupo_anecop = grupo}
    IN  IF hits = {} THEN << <<0, 1>>, <<0, 1>> >>
        ELSE LET ultimo == CHOOSE i \in hits : \A j \in hits : j <= i
             IN  <<num(sdf[ultimo].kg), num(sdf[ultimo].valor_fruta)>>

\* A price that is the plain mean of the prices of the ANECOP groups
PrecioPonderado_sin_pesos(datos) ==
    LET suma == DecSum([k \in 1..Len(datos) |-> datos[k][1]])
    IN  IF DecLe(suma, <<0, 1>>) THEN <<0, 1>>
        ELSE DecDiv(DecSum([k \in 1..Len(datos) |-> datos[k][2]]), Dec(Len(datos), 1))

\* The price of a commercial group made of several ANECOP groups: 0 when
\* their kilos sum to 0 or less, else the mean of their prices weighted by kilos
PrecioPonderado(datos) ==
    LET suma == DecSum([k \in 1..Len(datos) |-> datos[k][1]])
    IN  IF DecLe(suma, <<0, 1>>) THEN <<0, 1>>
        ELSE DecDiv(DecSum([k \in 1..Len(datos) |-> DecMul(datos[k][1], datos[k][2])]),
                    suma)

\* The three rows cargar_anecop appends for one week
FilasNormalizadas(semana, sdf) ==
    << [semana |-> semana, grupo |-> "AAA",
        precio_base |-> DatoAnecop(sdf, "2/3")[2]],
       [semana |-> semana, grupo |-> "AA",
        precio_base |-> PrecioPonderado(<<DatoAnecop(sdf, "4"), DatoAnecop(sdf, "5")>>)],
       [semana |-> semana, grupo |-> "A",
        precio_base |-> PrecioPonderado(<<DatoAnecop(sdf, "6"), DatoAnecop(sdf, "7/8"),
                                          DatoAnecop(sdf, "9/10")>>)] >>

\* cargar_anecop on the rows read from the file: ValueError when there is
\* none, else three rows for every week, the weeks in increasing order
cargar_anecop(df) ==
    IF df = <<>>
    THEN [estado |-> "error", error |-> "ValueError", filas |-> <<>>]
    ELSE [estado |-> "ok", error |-> "",
          filas |->
              LET semanas == Sorted({df[i].semana : i \in 1..Len(df)})
              IN  Flatten([s \in 1..Len(semanas) |->
                      FilasNormalizadas(semanas[s],
                          SelectSeq(df, LAMBDA r : r.semana = semanas[s]))])]

(***************************************************************************)
(* The inputs of a run.                                                    *)
(***************************************************************************)
\* Column names of the weight table: as extractor_sqlite.fetch_pesosfres and
\* the fixture of checks_minimos name them (lower case), as the table
\* PesosFres names them, and a table that carries both.
ColumnasMinusculas ==
    ColumnasMelt \cup {"apodo", "idsocio"}
ColumnasPesosFres ==
    {"Apodo", "semana", "Boleta", "IDSocio", "DesLinea", "DesMesa", "Podrido",
     "Cal0", "Cal1", "Cal2", "Cal3", "Cal4", "Cal5",
     "Cal6", "Cal7", "Cal8", "Cal9", "Cal10", "Cal11"}
ColumnasAmbas == ColumnasMinusculas \cup ColumnasPesosFres

\* One row of the weight table: kilos (half kilograms) in one caliber
\* column and the same kilos in each reject column
FilaPesos(semana, idsocio, cal, kilos, destrio) ==
    [semana  |-> semana,
     idsocio |-> idsocio,
     campana |-> 2026, empresa |-> 1, cultivo |-> "KAKIS",
     cal     |-> [c \in CALIBRES |-> IF c = cal THEN kilos ELSE 0],
     des     |-> [d \in 1..Len(DESTRIOS) |-> destrio]]

\* Tables of at most MaxRows rows drawn from a list of rows; the order of the
\* rows of the weight table does not matter to calcular_modelo_final
Tablas(filas) ==
    UNION {{[i \in 1..n |-> filas[f[i]]] :
              f \in {h \in [1..n -> 1..Len(filas)] :
                        \A i, j \in 1..n : i <= j => h[i] <= h[j]}} :
           n \in 0..MaxRows}

\* Grower ids
S1 == <<"S", "1">>
S2 == <<"S", "2">>
S3 == <<"S", "3">>

\* The CorrespondenciasCalibres tables
Txt_AAA1 == <<"A", "A", "A", " ", "1", OrdA>>
Txt_AAA2 == <<"A", "A", "A", " ", "2", OrdA>>
CorrFixture ==
    << [BASE |-> <<"c", "0">>, KAKIS |-> Txt_AAA1],
       [BASE |-> <<"c", "1">>, KAKIS |-> Txt_AAA2] >>
CorrCompleta ==
    << [BASE |-> <<"c", "0">>, KAKIS |-> Txt_AAA1],
       [BASE |-> <<"c", "1">>, KAKIS |-> <<"A", "A", " ", "1", OrdA>>],
       [BASE |-> <<"C", "1">>, KAKIS |-> Txt_AAA2],
       [BASE |-> <<" ", "c", "2", " ">>, KAKIS |-> <<"a", "a", "1", "a">>],
       [BASE |-> <<"c", "6">>, KAKIS |-> <<" ", "A", " ", " ", "1", OrdA>>],
       [BASE |-> <<"c", "7">>, KAKIS |-> <<"a", " ", "2", OrdA, " ">>],
       [BASE |-> <<"c", "8">>, KAKIS |-> <<"D", "E", "S", "T", "R", "I", "O">>],
       [BASE |-> <<"c", "1", "0">>, KAKIS |-> <<"A", "A", "A", "A", "1", "A">>],
       [BASE |-> <<"c", "1", "1">>, KAKIS |-> <<"A", "A", " ", "3", OrdA>>] >>
CorrSinComercial ==
    << [BASE |-> <<"c", "0">>, KAKIS |-> <<"A", "A", "A">>],
       [BASE |-> <<"c", "8">>, KAKIS |-> <<"D", "E", "S", "T", "R", "I", "O">>] >>

\* The reference table: for each week either no row or one row for each of
\* the groups that has a price (prices in 1/10000; -1: the group has no row)
SinFilas == <<-1, -1, -1>>
PreciosFixture == <<20000, 10000, 5000>>
FilasAnecop(semana, precios) ==
    Flatten([g \in 1..3 |->
        IF precios[g] < 0 THEN <<>>
        ELSE << [semana      |-> semana,
                 grupo       |-> GRUPOS_COMERCIALES[g],
                 precio_base |-> Precio(precios[g])] >>])
Anecop(porSemana) ==
    Flatten([w \in 1..MaxWeek |-> FilasAnecop(w, porSemana[w])])

\* precios_destrio, in the order of DESTRIOS
DestrioCero == <<Precio(0), Precio(0), Precio(0)>>
DestrioPagado == <<Precio(1000), Precio(500), Precio(0)>>

VARIABLES
    columnas,            \* pesos_df.columns
    pesos_df,            \* the rows of the weight table
    correspondencias_df, \* the rows of CorrespondenciasCalibres
    anecop_df,           \* the reference table
    precios_destrio, bruto_campana, otros_fondos, fondo_gg_total,
    ratio_categoria_ii,
    calibre_map,         \* what build_calibre_mapping gave
    resultado,           \* what calcular_modelo_final gave
    deepp_columnas,      \* deepp_df.columns
    deepp_df,            \* the certification rows
    mnivel_df,           \* the quality-index table
    bon_global_df,       \* the BonGlobal rows
    fondo_gg,            \* what calcular_fondo_globalgap gave
    anecop_excel,        \* the rows of the file at config.anecop_path
    etapa,               \* app_service.run: the index in Etapas of the next stage
    traza,               \* app_service.run: the stages entered so far
    archivos,            \* the output files written so far
    perceco_csv,         \* the rows of the Perceco price file, once written
    run_error,           \* the exception app_service.run raised, "" if none
    repeticion,          \* what a second execution on the same inputs gave
    anecop_cargado,      \* what cargar_anecop gave on anecop_excel
    pesosfres_db,        \* the rows of table PesosFres in the fruit database
    extraccion,          \* what fetch_pesosfres gave on pesosfres_db
    run_button,          \* LiquidacionApp: the state of the run button
    export_button,       \* LiquidacionApp: the state of the export button
    progress,            \* LiquidacionApp: the progress bar is running
    result_csv,          \* LiquidacionApp._result_csv: <<>> or <<path>>
    worker_queue,        \* LiquidacionApp._worker_queue
    hilos,               \* the worker threads started so far
    polls                \* the scheduled calls of _poll_worker_queue

vars == <<columnas, pesos_df, correspondencias_df, anecop_df, precios_destrio,
          bruto_campana, otros_fondos, fondo_gg_total, ratio_categoria_ii,
          calibre_map, resultado,
          deepp_columnas, deepp_df, mnivel_df, bon_global_df, fondo_gg,
          anecop_excel, etapa, traza, archivos, perceco_csv, run_error, hash_seed,
          repeticion, anecop_cargado,
          pesosfres_db, extraccion,
          run_button, export_button, progress, result_csv, worker_queue, hilos,
          polls>>

entradas == <<columnas, pesos_df, correspondencias_df, anecop_df, precios_destrio,
              bruto_campana, otros_fondos, fondo_gg_total, ratio_categoria_ii>>

entradas_gg == <<deepp_columnas, deepp_df, mnivel_df, bon_global_df>>

Pendiente == [estado |-> "pendiente"]

\* The stages of app_service.run in the order of its statements
Etapas == <<"cargar", "fondo", "auditoria", "precios", "exportar">>
\* The value of etapa once run has returned or raised
Fin == Len(Etapas) + 1

run_vars == <<anecop_excel, etapa, traza, archivos, perceco_csv, run_error>>
det_vars == <<hash_seed, repeticion>>

\* No run of app_service.run and no second execution is part of the behaviour
SinRun ==
    /\ anecop_excel = <<>>
    /\ etapa = Fin
    /\ traza = <<>>
    /\ archivos = {}
    /\ perceco_csv = <<>>
    /\ run_error = ""
SinRepeticion ==
    /\ hash_seed = 0
    /\ repeticion = Pendiente

\* The outcomes of the loaders called on their own
extr_vars == <<pesosfres_db, extraccion>>
ui_vars == <<run_button, export_button, progress, result_csv, worker_queue, hilos,
             polls>>
carga_vars == <<anecop_cargado, extr_vars, ui_vars>>
\* LiquidacionApp.__init__: the window before any button is pressed
SinUI ==
    /\ run_button = "normal"
    /\ export_button = "disabled"
    /\ progress = FALSE
    /\ result_csv = <<>>
    /\ worker_queue = <<>>
    /\ hilos = <<>>
    /\ polls = 0
\* fetch_pesosfres is not part of the behaviour
SinExtraccion == pesosfres_db = <<>> /\ extraccion = Pendiente
\* No loader is called on its own
SinCarga == anecop_cargado = Pendiente /\ SinExtraccion /\ SinUI

\* The fixture of scripts/checks_minimos.py
PesosFixture ==
    << FilaPesos(1, S1, 0, 20, 2), FilaPesos(1, S2, 1, 40, 0) >>
AnecopFixture == FilasAnecop(1, PreciosFixture)
\* Text values of the certification tables
N1 == <<"N", "1">>
N2 == <<"N", "2">>
OTRA == <<"O", "T", "R", "A">>
GlobalGapFixture == <<" ", "g", "l", "o", "b", "a", "l", " ", "g", "a", "p", " ">>

\* One row of deepp_df; ambito is <<campana, empresa, cultivo>>
FilaDeepp(idsocio, certificacion, nivelglobal, ambito) ==
    [idsocio |-> idsocio, certificacion |-> certificacion,
     nivelglobal |-> nivelglobal,
     campana |-> ambito[1], empresa |-> ambito[2], cultivo |-> ambito[3]]
Ambito2026 == <<2026, 1, "KAKIS">>

ColumnasDeeppFixture == {"boleta", "idsocio", "certificacion", "nivelglobal"}
DeeppFixture ==
    << FilaDeepp(S1, GlobalGapFixture, N1, Ambito2026),
       FilaDeepp(S2, OTRA, N1, Ambito2026) >>
MNivelFixture == << [nivel |-> N1, indice |-> Dec(1, 1)] >>
BonGlobalFixture == << [bonificacion |-> Dec(1, 10)] >>


\* The rows the weight tables are drawn from
CargasMF == << <<0, 20, 2>>, <<1, 40, 0>>, <<2, 1, 0>>, <<6, 3, 0>>, <<9, 20, 0>> >>
FilasMF ==
    Flatten([w \in 1..MaxWeek |->
        [k \in 1..Len(CargasMF) |->
            FilaPesos(w, S1, CargasMF[k][1], CargasMF[k][2], CargasMF[k][3])]])

\* <<bruto_campana, otros_fondos, fondo_gg_total>> in 1/100000
Dineros ==
    { <<10000000, 0, 100000>>, <<100000, 0, 0>>, <<50000, 0, 100000>>,
      <<100000, 0, 100000>> }
Ratios == {50, 100, 150}

PreciosSemana ==
    { SinFilas, PreciosFixture, <<20000, 10000, -1>>, <<0, 10000, 5000>>,
      <<10000, 99, 0>>, <<10000, 1, 0>>, <<30000, 10000, 20000>> }

EntradasPesos ==
    [columnas : {ColumnasAmbas}, pesos : Tablas(FilasMF),
     correspondencias : {CorrCompleta},
     anecop : {Anecop([w \in 1..MaxWeek |-> PreciosFixture]),
               Anecop([w \in 1..MaxWeek |-> <<10000, 99, 0>>])},
     precios_destrio : {DestrioCero}, dinero : Dineros, ratio : Ratios]

EntradasAnecop ==
    [columnas : {ColumnasAmbas},
     pesos : { PesosFixture,
               << FilaPesos(MaxWeek, S1, 0, 20, 2), FilaPesos(MaxWeek, S2, 1, 40, 0) >>,
               << FilaPesos(1, S1, 2, 1, 2), FilaPesos(MaxWeek, S2, 6, 3, 0) >>,
               << FilaPesos(1, S1, 2, 1, 0) >> },
     correspondencias : {CorrCompleta},
     anecop : {Anecop(f) : f \in [1..MaxWeek -> PreciosSemana]},
     precios_destrio : {DestrioCero}, dinero : Dineros,
     ratio : {50}]

\* Paid rejects and a grade II ratio above 1, on reference tables with the
\* same prices every week
EntradasDestrio ==
    [columnas : {ColumnasAmbas},
     pesos : { PesosFixture,
               << FilaPesos(MaxWeek, S1, 0, 20, 2), FilaPesos(MaxWeek, S2, 1, 40, 0) >>,
               << FilaPesos(1, S1, 2, 1, 2), FilaPesos(MaxWeek, S2, 6, 3, 0) >> },
     correspondencias : {CorrCompleta},
     anecop : {Anecop([w \in 1..MaxWeek |-> precios]) : precios \in PreciosSemana},
     precios_destrio : {DestrioCero, DestrioPagado}, dinero : Dineros,
     ratio : {50, 150}]

EntradasTabla ==
    [columnas : {ColumnasMinusculas, ColumnasPesosFres, ColumnasAmbas},
     pesos : {PesosFixture, << FilaPesos(1, S1, 2, 20, 0), FilaPesos(1, S1, 8, 20, 0) >>},
     correspondencias : {CorrFixture, CorrCompleta, CorrSinComercial},
     anecop : {AnecopFixture},
     precios_destrio : {DestrioCero},
     dinero : {<<10000000, 0, 100000>>, <<10000000, 5, 100000>>}, ratio : {50}]

\* Rows of an ANECOP file: <<semana, grupo_anecop, kg, valor_fruta>>
FilaCruda(semana, grupo, kg, valor) ==
    [semana |-> semana, grupo_anecop |-> grupo, kg |-> kg, valor_fruta |-> valor]

\* A week in which ANECOP group 4 has no kilos and group 5 has no row
AnecopCrudoSinAA ==
    << FilaCruda(1, "2/3", Dec(100, 1), Dec(2, 1)),
       FilaCruda(1, "4", None, Dec(1, 1)),
       FilaCruda(1, "6", Dec(10, 1), Dec(1, 2)),
       FilaCruda(1, "7/8", Dec(10, 1), Dec(3, 2)) >>
\* A week with kilos in every ANECOP group that has a row
AnecopCrudoCompleto ==
    << FilaCruda(1, "2/3", Dec(100, 1), Dec(2, 1)),
       FilaCruda(1, "4", Dec(30, 1), Dec(1, 1)),
       FilaCruda(1, "5", Dec(10, 1), Dec(3, 1)),
       FilaCruda(1, "9/10", Dec(10, 1), Dec(1, 2)) >>

\* Reference tables made by cargar_anecop, with weight in AAA and AA
EntradasNormalizador ==
    [columnas : {ColumnasAmbas},
     pesos : { << FilaPesos(1, S1, 0, 20, 0), FilaPesos(1, S2, 2, 20, 0) >> },
     correspondencias : {CorrCompleta},
     anecop : {cargar_anecop(AnecopCrudoSinAA).filas,
               cargar_anecop(AnecopCrudoCompleto).filas},
     precios_destrio : {DestrioCero},
     dinero : {<<10000000, 0, 100000>>}, ratio : {50}]

\* Mappings a caller hands to calcular_modelo_final without
\* build_calibre_mapping, as checks_minimos.py does: the one of the fixture
\* and one with two rows for cal0
MapaFixture ==
    << [calibre |-> 0, grupo |-> "AAA", categoria |-> "I"],
       [calibre |-> 1, grupo |-> "AAA", categoria |-> "II"] >>
MapaDuplicado ==
    << [calibre |-> 0, grupo |-> "AAA", categoria |-> "I"],
       [calibre |-> 0, grupo |-> "AAA", categoria |-> "II"],
       [calibre |-> 1, grupo |-> "AAA", categoria |-> "II"] >>
MapasDirectos == {MapaFixture, MapaDuplicado}

\* Reference tables with two rows for one (week, group); without a
\* correspondence table the mapping is one of MapasDirectos
EntradasDuplicados ==
    [columnas : {ColumnasAmbas, ColumnasMinusculas},
     pesos : {PesosFixture},
     correspondencias : {<<>>, CorrFixture},
     anecop : { AnecopFixture,
                AnecopFixture \o FilasAnecop(1, <<30000, -1, -1>>),
                AnecopFixture \o FilasAnecop(1, <<-1, -1, 5000>>),
                AnecopFixture \o FilasAnecop(MaxWeek, PreciosFixture)
                              \o FilasAnecop(MaxWeek, <<-1, 10000, -1>>),
                FilasAnecop(1, <<0, 10000, 5000>>) \o FilasAnecop(1, <<0, -1, -1>>) },
     precios_destrio : {DestrioCero},
     dinero : {<<10000000, 0, 100000>>}, ratio : {50}]

\* Deliveries of thousands of kilograms (6000 kg and 1500 kg of AAA grade I
\* in week 1), campaigns of 2000.00 and 1000.00
EntradasVolumen ==
    [columnas : {ColumnasAmbas},
     pesos : { << FilaPesos(1, S1, 0, 12000, 0) >>, << FilaPesos(1, S1, 0, 3000, 0) >> },
     correspondencias : {CorrCompleta},
     anecop : {AnecopFixture},
     precios_destrio : {DestrioCero},
     dinero : {<<200000000, 0, 0>>, <<100000000, 0, 0>>}, ratio : {50}]

\* Reference tables whose first week has an AA and an A row and no AAA row
EntradasSinAAA ==
    [columnas : {ColumnasAmbas},
     pesos : {PesosFixture, << FilaPesos(1, S1, 2, 20, 0) >>},
     correspondencias : {CorrCompleta},
     anecop : { FilasAnecop(1, <<-1, 10000, 5000>>),
                FilasAnecop(1, <<-1, 10000, 5000>>) \o FilasAnecop(MaxWeek, PreciosFixture) },
     precios_destrio : {DestrioCero},
     dinero : {<<10000000, 0, 100000>>}, ratio : {50}]

EntradasMF ==
    EntradasPesos \cup EntradasAnecop \cup EntradasTabla \cup EntradasNormalizador
        \cup EntradasDuplicados \cup EntradasSinAAA \cup EntradasDestrio

InitMF ==
    /\ \E e \in EntradasMF :
          /\ columnas = e.columnas
          /\ pesos_df = e.pesos
          /\ correspondencias_df = e.correspondencias
          /\ anecop_df = e.anecop
          /\ precios_destrio = e.precios_destrio
          /\ bruto_campana = Importe(e.dinero[1])
          /\ otros_fondos = Importe(e.dinero[2])
          /\ fondo_gg_total = Importe(e.dinero[3])
          /\ ratio_categoria_ii = Ratio(e.ratio)
    /\ calibre_map = Pendiente
    /\ resultado = Pendiente
    /\ deepp_columnas = ColumnasDeeppFixture
    /\ deepp_df = DeeppFixture
    /\ mnivel_df = MNivelFixture
    /\ bon_global_df = BonGlobalFixture
    /\ fondo_gg = Pendiente
    /\ SinRun
    /\ SinRepeticion
    /\ SinCarga

\* app_service.run: calibre_map = build_calibre_mapping(...)
BuildCalibreMapping ==
    /\ calibre_map.estado = "pendiente"
    /\ calibre_map' = build_calibre_mapping(correspondencias_df)
    /\ UNCHANGED <<carga_vars, entradas, resultado, entradas_gg, fondo_gg, run_vars, det_vars>>

\* A call of calcular_modelo_final with the mapping that was built
CalcularModeloFinal ==
    /\ calibre_map.estado = "ok"
    /\ resultado.estado = "pendiente"
    /\ resultado' = calcular_modelo_final(columnas, pesos_df, calibre_map.mapped,
                        anecop_df, precios_destrio, bruto_campana, otros_fondos,
                        fondo_gg_total, ratio_categoria_ii)
    /\ UNCHANGED <<carga_vars, entradas, calibre_map, entradas_gg, fondo_gg, run_vars, det_vars>>

\* The caller gives the mapping itself (no correspondence table is read)
UsarCalibreMap ==
    /\ calibre_map.estado = "pendiente"
    /\ correspondencias_df = <<>>
    /\ \E mapa \in MapasDirectos :
          calibre_map' = [estado |-> "ok", error |-> "", mapped |-> mapa]
    /\ UNCHANGED <<carga_vars, entradas, resultado, entradas_gg, fondo_gg, run_vars, det_vars>>

NextMF == BuildCalibreMapping \/ UsarCalibreMap \/ CalcularModeloFinal

SpecMF == InitMF /\ [][NextMF]_vars

(***************************************************************************)
(* Runs of calcular_fondo_globalgap.                                       *)
(***************************************************************************)
\* The columns of the weight table as fetch_pesosfres names them
ColumnasExtractor == ColumnasMinusculas \cup {"campana", "empresa", "cultivo"}
\* The columns of deepp_df as fetch_deepp names them
ColumnasDeeppExtractor ==
    ColumnasDeeppFixture \cup {"campana", "empresa", "cultivo"}

\* Sequences of at most MaxRows rows drawn from a list of rows
Secuencias(filas) ==
    UNION {{[i \in 1..n |-> filas[f[i]]] : f \in [1..n -> 1..Len(filas)]} :
           n \in 0..MaxRows}

\* One row of the weight table of a campaign
FilaPesosDe(idsocio, cal, kilos, campana) ==
    [FilaPesos(1, idsocio, cal, kilos, 0) EXCEPT !.campana = campana]

FilasPesosGG ==
    << FilaPesosDe(S1, 0, 20, 2026), FilaPesosDe(S2, 1, 40, 2026),
       FilaPesosDe(<<" ", "S", "1", " ">>, 8, 3, 2026),
       FilaPesosDe(S3, 11, 1, 2026), FilaPesosDe(S2, 2, 7, 2025) >>

FilasDeeppGG ==
    << FilaDeepp(S1, GlobalGapFixture, N1, Ambito2026),
       FilaDeepp(S2, OTRA, N1, Ambito2026),
       FilaDeepp(S1, <<"G", "l", "o", "b", "a", "l", " ", "G", "a", "p">>, N2, Ambito2026),
       FilaDeepp(<<"S", "1", " ">>, None, <<"N", "1", " ">>, Ambito2026),
       FilaDeepp(S1, OTRA, None, <<2025, 1, "KAKIS">>),
       FilaDeepp(S2, GLOBAL_GAP, N2, <<2025, 1, "KAKIS">>),
       FilaDeepp(S2, <<"G", "L", "O", "B", "A", "L", "G", "A", "P">>, <<>>, Ambito2026),
       FilaDeepp(S2, GLOBAL_GAP, N1, <<2026, 2, "KAKIS">>),
       FilaDeepp(S3, GLOBAL_GAP, N1, <<2026, 1, "CAQUI">>) >>

\* Both growers of the fixture certified, at different levels
DeeppDosNiveles ==
    << FilaDeepp(S1, GLOBAL_GAP, N1, Ambito2026),
       FilaDeepp(S2, GLOBAL_GAP, N2, Ambito2026) >>

TablasMNivel ==
    { MNivelFixture, <<>>,
      << [nivel |-> N1, indice |-> Dec(1, 1)], [nivel |-> N1, indice |-> Dec(1, 1)] >>,
      << [nivel |-> N1, indice |-> Dec(1, 1)], [nivel |-> N2, indice |-> Dec(1, 2)] >>,
      << [nivel |-> N2, indice |-> Dec(1, 2)], [nivel |-> N1, indice |-> Dec(3, 2)] >>,
      << [nivel |-> <<" ", "N", "1">>, indice |-> Dec(2, 1)] >>,
      << [nivel |-> None, indice |-> None], [nivel |-> N1, indice |-> None] >> }

TablasBonGlobal ==
    { BonGlobalFixture, <<>>,
      << [bonificacion |-> Dec(1, 10)], [bonificacion |-> Dec(1, 5)] >>,
      << [bonificacion |-> None] >> }

EntradasDeepp ==
    [columnas : {ColumnasMinusculas, ColumnasExtractor},
     pesos : {PesosFixture,
              << FilaPesosDe(S2, 2, 7, 2025), FilaPesosDe(S1, 0, 20, 2026) >>},
     deepp_columnas : {ColumnasDeeppFixture, ColumnasDeeppExtractor},
     deepp : Secuencias(FilasDeeppGG),
     mnivel : {MNivelFixture}, bon_global : {BonGlobalFixture}]

EntradasNiveles ==
    [columnas : {ColumnasMinusculas},
     pesos : {PesosFixture, << FilaPesosDe(S1, 0, 20, 2026), FilaPesosDe(S1, 8, 3, 2026) >>},
     deepp_columnas : {ColumnasDeeppFixture},
     deepp : {DeeppFixture, DeeppDosNiveles,
              << FilaDeepp(S1, GLOBAL_GAP, None, Ambito2026) >>},
     mnivel : TablasMNivel, bon_global : TablasBonGlobal]

EntradasPesosGG ==
    [columnas : {ColumnasMinusculas, ColumnasPesosFres,
                 ColumnasMinusculas \ {"idsocio"}, ColumnasExtractor \ {"cal11"}},
     pesos : Secuencias(FilasPesosGG),
     deepp_columnas : {ColumnasDeeppFixture, ColumnasDeeppExtractor \ {"certificacion"}},
     deepp : {DeeppFixture, DeeppDosNiveles},
     mnivel : {MNivelFixture}, bon_global : {BonGlobalFixture}]

\* BonGlobal tables with one rate for each quality level, the key of the
\* level in the column categoria that fetch_bon_global selects
BonPorNivel ==
    << [categoria |-> N1, bonificacion |-> Dec(1, 10)],
       [categoria |-> N2, bonificacion |-> Dec(1, 5)] >>
BonPorNivelInverso ==
    << [categoria |-> N2, bonificacion |-> Dec(1, 5)],
       [categoria |-> N1, bonificacion |-> Dec(1, 10)] >>
\* The one flat rate of a BonGlobal table without categories
BonPlano == << [categoria |-> <<>>, bonificacion |-> Dec(1, 10)] >>

EntradasBonificacion ==
    [columnas : {ColumnasMinusculas},
     pesos : {PesosFixture},
     deepp_columnas : {ColumnasDeeppFixture},
     deepp : {DeeppFixture, DeeppDosNiveles},
     mnivel : { << [nivel |-> N1, indice |-> Dec(1, 1)],
                   [nivel |-> N2, indice |-> Dec(1, 2)] >> },
     bon_global : {BonPorNivel, BonPorNivelInverso, BonPlano}]

EntradasGG ==
    EntradasDeepp \cup EntradasNiveles \cup EntradasPesosGG \cup EntradasBonificacion

InitGG ==
    /\ \E e \in EntradasGG :
          /\ columnas = e.columnas
          /\ pesos_df = e.pesos
          /\ deepp_columnas = e.deepp_columnas
          /\ deepp_df = e.deepp
          /\ mnivel_df = e.mnivel
          /\ bon_global_df = e.bon_global
    /\ correspondencias_df = CorrFixture
    /\ anecop_df = AnecopFixture
    /\ precios_destrio = DestrioCero
    /\ bruto_campana = Importe(10000000)
    /\ otros_fondos = Importe(0)
    /\ fondo_gg_total = Importe(100000)
    /\ ratio_categoria_ii = Ratio(50)
    /\ calibre_map = Pendiente
    /\ resultado = Pendiente
    /\ fondo_gg = Pendiente
    /\ SinRun
    /\ SinRepeticion
    /\ SinCarga

\* A call of calcular_fondo_globalgap
CalcularFondoGlobalGap ==
    /\ fondo_gg.estado = "pendiente"
    /\ fondo_gg' = calcular_fondo_globalgap(columnas, pesos_df, deepp_columnas,
                       deepp_df, mnivel_df, bon_global_df)
    /\ UNCHANGED <<carga_vars, entradas, entradas_gg, calibre_map, resultado, run_vars, det_vars>>

NextGG == CalcularFondoGlobalGap

SpecGG == InitGG /\ [][NextGG]_vars

(***************************************************************************)
(* app_service.run, one stage at a time.                                   *)
(***************************************************************************)
\* The columns of audit_globalgap_socios_df: those calcular_fondo_globalgap
\* selects and the three run inserts
ColumnasAuditoriaSocios ==
    {"idsocio", "nivelglobal", "indice", "bonificacion_eur", "kilos_comerciales",
     "fondo_soc", "campana", "empresa", "cultivo"}

\* The keyword arguments of the call of exportar_todo in run
ArgumentosExportar ==
    {"precios_df", "campana", "cultivo", "audit_df", "resumen_metricas",
     "output_dir", "export_decimals"}

\* The keyword-only parameters of exportar_todo, none with a default
ParametrosExportar ==
    {"precios_df", "campana", "cultivo", "audit_df", "audit_globalgap_socios_df",
     "audit_kilos_semana_df", "resumen_df", "resumen_metricas", "output_dir",
     "export_decimals"}

\* The files exportar_todo writes
ArchivosExportar ==
    {"perceco", "precios_finales", "audit", "audit_globalgap_socios",
     "audit_kilos_semana", "resumen", "resumen_semana"}

\* fondo_gg_total_audit: the sum of column fondo_gg_eur
fondo_gg_total_audit(audit_socios) ==
    DecSum(MapSeq(audit_socios, LAMBDA row : parse_decimal(row.fondo_gg_eur)))

\* The exception stage n of run raises on the values the earlier stages left,
\* "" when the stage completes
ErrorDeEtapa(n) ==
    CASE Etapas[n] = "cargar" ->
            IF cargar_anecop(anecop_excel).estado = "error"
            THEN cargar_anecop(anecop_excel).error
            ELSE build_calibre_mapping(correspondencias_df).error
      [] Etapas[n] = "fondo" ->
            calcular_fondo_globalgap(columnas, pesos_df, deepp_columnas,
                                     deepp_df, mnivel_df, bon_global_df).error
      [] Etapas[n] = "auditoria" ->
            IF ~ (ColumnasMelt \ {"boleta"} \subseteq columnas) THEN "KeyError"
            ELSE IF ~ ClavesUnicas([j \in 1..Len(calibre_map.mapped) |->
                                       calibre_map.mapped[j].calibre])
                THEN "MergeError"
            ELSE IF ~ ({"kilos_gg", "fondo_gg_eur"} \subseteq ColumnasAuditoriaSocios)
                THEN "KeyError"
            ELSE IF DecLt(Dec(1, 100),
                          DecAbs(DecSub(fondo_gg_total_audit(fondo_gg.audit_globalgap_socios_df),
                                        fondo_gg.fondo_total)))
                THEN "ValueError"
            ELSE ""
      [] Etapas[n] = "precios" ->
            calcular_modelo_final(columnas, pesos_df, calibre_map.mapped,
                anecop_df, precios_destrio, bruto_campana, otros_fondos,
                fondo_gg.fondo_total, ratio_categoria_ii).error
      [] Etapas[n] = "exportar" ->
            IF ArgumentosExportar # ParametrosExportar THEN "TypeError" ELSE ""

\* A stage that raises is the last one: the exception leaves run
SiguienteEtapa_sin_parar(n, error) == n + 1

\* The stage run enters after stage n
SiguienteEtapa(n, error) == IF error = "" THEN n + 1 ELSE Fin

\* Runs of app_service.run: the tables of the certification fund, a
\* reference file that is empty or not, a correspondence table that maps
\* some caliber or none
EntradasRun ==
    [gg : EntradasNiveles \cup EntradasPesosGG,
     anecop_excel : {<<>>, AnecopCrudoCompleto},
     correspondencias : {<<>>, CorrFixture}]

InitRun ==
    /\ \E e \in EntradasRun :
          /\ columnas = e.gg.columnas
          /\ pesos_df = e.gg.pesos
          /\ deepp_columnas = e.gg.deepp_columnas
          /\ deepp_df = e.gg.deepp
          /\ mnivel_df = e.gg.mnivel
          /\ bon_global_df = e.gg.bon_global
          /\ anecop_excel = e.anecop_excel
          /\ correspondencias_df = e.correspondencias
    /\ anecop_df = <<>>
    /\ precios_destrio = DestrioCero
    /\ bruto_campana = Importe(10000000)
    /\ otros_fondos = Importe(0)
    /\ fondo_gg_total = Importe(0)
    /\ ratio_categoria_ii = Ratio(50)
    /\ calibre_map = Pendiente
    /\ resultado = Pendiente
    /\ fondo_gg = Pendiente
    /\ etapa = 1
    /\ traza = <<>>
    /\ archivos = {}
    /\ perceco_csv = <<>>
    /\ run_error = ""
    /\ SinRepeticion
    /\ SinCarga

\* run enters its next stage; the stage assigns its variables when it
\* completes and ends the run when it raises
EjecutarEtapa ==
    /\ etapa < Fin
    /\ LET error == ErrorDeEtapa(etapa)
           hecha(nombre) == Etapas[etapa] = nombre /\ error = ""
       IN  /\ traza' = Append(traza, Etapas[etapa])
           /\ run_error' = IF error = "" THEN run_error ELSE error
           /\ etapa' = SiguienteEtapa(etapa, error)
           /\ anecop_df' = IF hecha("cargar")
                           THEN cargar_anecop(anecop_excel).filas ELSE anecop_df
           /\ calibre_map' = IF hecha("cargar")
                             THEN build_calibre_mapping(correspondencias_df)
                             ELSE calibre_map
           /\ fondo_gg' = IF hecha("fondo")
                          THEN calcular_fondo_globalgap(columnas, pesos_df,
                                   deepp_columnas, deepp_df, mnivel_df, bon_global_df)
                          ELSE fondo_gg
           /\ fondo_gg_total' = IF hecha("fondo")
                                THEN calcular_fondo_globalgap(columnas, pesos_df,
                                         deepp_columnas, deepp_df, mnivel_df,
                                         bon_global_df).fondo_total
                                ELSE fondo_gg_total
           /\ resultado' = IF hecha("precios")
                           THEN calcular_modelo_final(columnas, pesos_df,
                                    calibre_map.mapped, anecop_df, precios_destrio,
                                    bruto_campana, otros_fondos, fondo_gg.fondo_total,
                                    ratio_categoria_ii)
                           ELSE resultado
           /\ archivos' = IF hecha("exportar") THEN ArchivosExportar ELSE archivos
           /\ perceco_csv' = IF hecha("exportar")
                             THEN perceco_es(resultado.precios_df) ELSE perceco_csv
    /\ UNCHANGED <<carga_vars, columnas, pesos_df, correspondencias_df, precios_destrio,
                   bruto_campana, otros_fondos, ratio_categoria_ii, entradas_gg,
                   anecop_excel, det_vars>>

NextRun == EjecutarEtapa

SpecRun == InitRun /\ [][NextRun]_vars

(***************************************************************************)
(* Two executions of calcular_fondo_globalgap followed by                  *)
(* calcular_modelo_final on the same inputs, each in a process of its own. *)
(***************************************************************************)
\* One grower certified with two levels
DeeppConflicto ==
    << FilaDeepp(S1, GLOBAL_GAP, N1, Ambito2026),
       FilaDeepp(S1, GLOBAL_GAP, N2, Ambito2026) >>
\* An index for each level of the certification rows
MNivelDet ==
    << [nivel |-> N1, indice |-> Dec(1, 1)], [nivel |-> N2, indice |-> Dec(1, 2)] >>

EntradasDet ==
    [pesos : { PesosFixture,
               << FilaPesos(1, S1, 0, 20, 2), FilaPesos(MaxWeek, S2, 1, 40, 0) >>,
               << FilaPesos(MaxWeek, S1, 2, 1, 2), FilaPesos(1, S2, 6, 3, 0) >> },
     anecop : {Anecop(f) : f \in [1..MaxWeek ->
                   {SinFilas, PreciosFixture, <<20000, 10000, -1>>,
                    <<30000, 10000, 20000>>}]},
     deepp : {DeeppFixture, DeeppDosNiveles, DeeppConflicto},
     bon_global : {BonGlobalFixture,
                   << [bonificacion |-> Dec(1, 10)], [bonificacion |-> Dec(1, 5)] >>},
     dinero : {<<10000000, 0>>, <<100000, 5>>},
     seed : HashSeeds]

InitDet ==
    /\ \E e \in EntradasDet :
          /\ pesos_df = e.pesos
          /\ anecop_df = e.anecop
          /\ deepp_df = e.deepp
          /\ bon_global_df = e.bon_global
          /\ bruto_campana = Importe(e.dinero[1])
          /\ otros_fondos = Importe(e.dinero[2])
          /\ hash_seed = e.seed
    /\ columnas = ColumnasAmbas
    /\ correspondencias_df = CorrCompleta
    /\ precios_destrio = DestrioCero
    /\ fondo_gg_total = Importe(0)
    /\ ratio_categoria_ii = Ratio(50)
    /\ deepp_columnas = ColumnasDeeppFixture
    /\ mnivel_df = MNivelDet
    /\ calibre_map = build_calibre_mapping(CorrCompleta)
    /\ resultado = Pendiente
    /\ fondo_gg = Pendiente
    /\ repeticion = Pendiente
    /\ SinRun
    /\ SinCarga

\* First execution: calcular_fondo_globalgap
PrimerFondo ==
    /\ fondo_gg.estado = "pendiente"
    /\ fondo_gg' = calcular_fondo_globalgap(columnas, pesos_df, deepp_columnas,
                       deepp_df, mnivel_df, bon_global_df)
    /\ UNCHANGED <<carga_vars, entradas, entradas_gg, calibre_map, resultado, run_vars, det_vars>>

\* First execution: calcular_modelo_final with the fund total just computed
PrimerModelo ==
    /\ fondo_gg.estado = "ok"
    /\ resultado.estado = "pendiente"
    /\ resultado' = calcular_modelo_final(columnas, pesos_df, calibre_map.mapped,
                        anecop_df, precios_destrio, bruto_campana, otros_fondos,
                        fondo_gg.fondo_total, ratio_categoria_ii)
    /\ UNCHANGED <<carga_vars, entradas, calibre_map, entradas_gg, fondo_gg, run_vars, det_vars>>

\* The first execution has returned or raised
PrimeraTerminada == fondo_gg.estado = "error" \/ resultado.estado \in {"ok", "error"}

\* A new process, with a hash seed of its own, for the second execution
NuevoProceso ==
    /\ PrimeraTerminada
    /\ repeticion.estado = "pendiente"
    /\ \E seed \in HashSeeds : hash_seed' = seed
    /\ repeticion' = [estado |-> "proceso", seed_1 |-> hash_seed]
    /\ UNCHANGED <<carga_vars, entradas, entradas_gg, calibre_map, resultado, fondo_gg, run_vars>>

\* Second execution: calcular_fondo_globalgap
RepetirFondo ==
    /\ repeticion.estado = "proceso"
    /\ repeticion' = [repeticion EXCEPT !.estado = "fondo"] @@
                     [fondo_gg |-> calcular_fondo_globalgap(columnas, pesos_df,
                                       deepp_columnas, deepp_df, mnivel_df,
                                       bon_global_df)]
    /\ UNCHANGED <<carga_vars, entradas, entradas_gg, calibre_map, resultado, fondo_gg, run_vars,
                   hash_seed>>

\* Second execution: calcular_modelo_final
RepetirModelo ==
    /\ repeticion.estado = "fondo"
    /\ repeticion.fondo_gg.estado = "ok"
    /\ repeticion' = [repeticion EXCEPT !.estado = "fin"] @@
                     [resultado |-> calcular_modelo_final(columnas, pesos_df,
                                        calibre_map.mapped, anecop_df,
                                        precios_destrio, bruto_campana, otros_fondos,
                                        repeticion.fondo_gg.fondo_total,
                                        ratio_categoria_ii)]
    /\ UNCHANGED <<carga_vars, entradas, entradas_gg, calibre_map, resultado, fondo_gg, run_vars,
                   hash_seed>>

NextDet ==
    PrimerFondo \/ PrimerModelo \/ NuevoProceso \/ RepetirFondo \/ RepetirModelo

SpecDet == InitDet /\ [][NextDet]_vars

(***************************************************************************)
(* calcular_modelo_final followed by exportar_todo.                        *)
(***************************************************************************)
EntradasExport ==
    EntradasTabla \cup EntradasNormalizador \cup EntradasDuplicados
        \cup EntradasVolumen

InitExport ==
    /\ \E e \in EntradasExport :
          /\ columnas = e.columnas
          /\ pesos_df = e.pesos
          /\ correspondencias_df = e.correspondencias
          /\ anecop_df = e.anecop
          /\ precios_destrio = e.precios_destrio
          /\ bruto_campana = Importe(e.dinero[1])
          /\ otros_fondos = Importe(e.dinero[2])
          /\ fondo_gg_total = Importe(e.dinero[3])
          /\ ratio_categoria_ii = Ratio(e.ratio)
    /\ calibre_map = Pendiente
    /\ resultado = Pendiente
    /\ deepp_columnas = ColumnasDeeppFixture
    /\ deepp_df = DeeppFixture
    /\ mnivel_df = MNivelFixture
    /\ bon_global_df = BonGlobalFixture
    /\ fondo_gg = Pendiente
    /\ SinRun
    /\ SinRepeticion
    /\ SinCarga

\* exportar_todo on the price table calcular_modelo_final returned
ExportarTodo ==
    /\ resultado.estado = "ok"
    /\ archivos = {}
    /\ archivos' = ArchivosExportar
    /\ perceco_csv' = perceco_es(resultado.precios_df)
    /\ UNCHANGED <<carga_vars, entradas, entradas_gg, calibre_map, resultado, fondo_gg,
                   anecop_excel, etapa, traza, run_error, det_vars>>

NextExport ==
    BuildCalibreMapping \/ UsarCalibreMap \/ CalcularModeloFinal \/ ExportarTodo

SpecExport == InitExport /\ [][NextExport]_vars

(***************************************************************************)
(* Calls of cargar_anecop on the rows read from the reference file.        *)
(***************************************************************************)
\* The rows a file may carry for one week: none; every group with kilos;
\* group 4 with an empty kg cell and no group 5; group 2/3 alone with an
\* empty kg cell; the three groups of A; group 4 twice; groups 4 and 5 with
\* 0 kilos; group 5 alone
SemanasCrudas(w) ==
    { <<>>,
      << FilaCruda(w, "2/3", Dec(100, 1), Dec(2, 1)), FilaCruda(w, "4", Dec(30, 1), Dec(1, 1)),
         FilaCruda(w, "5", Dec(10, 1), Dec(3, 1)), FilaCruda(w, "9/10", Dec(10, 1), Dec(1, 2)) >>,
      << FilaCruda(w, "2/3", Dec(100, 1), Dec(2, 1)), FilaCruda(w, "4", None, Dec(1, 1)),
         FilaCruda(w, "6", Dec(10, 1), Dec(1, 2)), FilaCruda(w, "7/8", Dec(10, 1), Dec(3, 2)) >>,
      << FilaCruda(w, "2/3", None, Dec(2, 1)) >>,
      << FilaCruda(w, "6", Dec(10, 1), Dec(1, 1)), FilaCruda(w, "7/8", Dec(20, 1), Dec(2, 1)),
         FilaCruda(w, "9/10", Dec(10, 1), Dec(3, 1)) >>,
      << FilaCruda(w, "4", Dec(10, 1), Dec(1, 1)), FilaCruda(w, "4", Dec(30, 1), Dec(2, 1)),
         FilaCruda(w, "5", Dec(10, 1), Dec(4, 1)) >>,
      << FilaCruda(w, "4", Dec(0, 1), Dec(1, 1)), FilaCruda(w, "5", Dec(0, 1), Dec(3, 1)) >>,
      << FilaCruda(w, "5", Dec(10, 1), Dec(3, 1)) >> }

\* The files: for every week one of its row lists, the weeks in increasing
\* or in decreasing order
EntradasCrudas ==
    UNION {{ Flatten([w \in 1..MaxWeek |-> f[w]]),
             Flatten([w \in 1..MaxWeek |-> f[MaxWeek + 1 - w]]) } :
           f \in {g \in [1..MaxWeek -> UNION {SemanasCrudas(w) : w \in 1..MaxWeek}] :
                     \A w \in 1..MaxWeek : g[w] \in SemanasCrudas(w)}}

InitAnecop ==
    /\ anecop_excel \in EntradasCrudas
    /\ anecop_cargado = Pendiente
    /\ columnas = ColumnasMinusculas
    /\ pesos_df = PesosFixture
    /\ correspondencias_df = CorrFixture
    /\ anecop_df = <<>>
    /\ precios_destrio = DestrioCero
    /\ bruto_campana = Importe(10000000)
    /\ otros_fondos = Importe(0)
    /\ fondo_gg_total = Importe(100000)
    /\ ratio_categoria_ii = Ratio(50)
    /\ calibre_map = Pendiente
    /\ resultado = Pendiente
    /\ deepp_columnas = ColumnasDeeppFixture
    /\ deepp_df = DeeppFixture
    /\ mnivel_df = MNivelFixture
    /\ bon_global_df = BonGlobalFixture
    /\ fondo_gg = Pendiente
    /\ etapa = Fin
    /\ traza = <<>>
    /\ archivos = {}
    /\ perceco_csv = <<>>
    /\ run_error = ""
    /\ SinRepeticion
    /\ SinExtraccion
    /\ SinUI

\* A call of cargar_anecop
CargarAnecop ==
    /\ anecop_cargado.estado = "pendiente"
    /\ anecop_cargado' = cargar_anecop(anecop_excel)
    /\ UNCHANGED <<entradas, entradas_gg, calibre_map, resultado, fondo_gg, run_vars,
                   det_vars, extr_vars, ui_vars>>

NextAnecop == CargarAnecop

SpecAnecop == InitAnecop /\ [][NextAnecop]_vars

(***************************************************************************)
(* extractor_sqlite.py: fetch_pesosfres and the hand-off of its table to   *)
(* calcular_modelo_final.                                                  *)
(***************************************************************************)
\* A cell of the database is <<v>>, or <<>> when it is NULL
\* pd.to_numeric(col, errors="coerce").fillna(0) on one cell
CeldaNumerica(celda) == IF celda = <<>> THEN 0 ELSE celda[1]

Digitos == <<"0", "1", "2", "3", "4", "5", "6", "7", "8", "9">>

\* pd.to_numeric(apodo, errors="coerce") is not NaN: the text is a whole
\* number
EsEntero(txt) ==
    /\ txt # <<>>
    /\ \A i \in 1..Len(txt) : \E d \in 1..10 : Digitos[d] = txt[i]

\* pd.to_numeric(apodo).astype("Int64") of a text that is a whole number
RECURSIVE ValorEntero(_)
ValorEntero(txt) ==
    IF txt = <<>> THEN 0
    ELSE 10 * ValorEntero(SubSeq(txt, 1, Len(txt) - 1))
         + (CHOOSE d \in 0..9 : Digitos[d + 1] = txt[Len(txt)])

\* fetch_pesosfres: the table it returns, or the SQLiteExtractorError it
\* raises.  alias: the aliases of the SELECT ("campana" stands for the name
\* spelled with n-tilde); cols: the aliases after str.strip().str.lower()
\* and the columns the function adds.
fetch_pesosfres(db, campana, empresa, cultivo) ==
    LET alias == {"campana", "empresa", "cultivo", "apodo", "boleta", "idsocio",
                  "deslinea", "desmesa", "podrido"} \cup ColumnasCalibres
        cols  == {ColLower(c) : c \in alias}
                    \cup {"kilos_comerciales_float", "kilos_comerciales",
                          "kilos_total", "semana"}
        df    == SelectSeq(db, LAMBDA row :
                    /\ row.CAMPANA = campana
                    /\ row.EMPRESA = empresa
                    /\ row.CULTIVO = cultivo)
    IN  IF df = <<>>
            THEN [estado |-> "error", error |-> "SQLiteExtractorError",
                  motivo |-> "sin datos", columnas |-> {}, filas |-> <<>>]
        ELSE IF \E i \in 1..Len(df) : ~ EsEntero(df[i].Apodo)
            THEN [estado |-> "error", error |-> "SQLiteExtractorError",
                  motivo |-> "semana invalida", columnas |-> {}, filas |-> <<>>]
        ELSE [estado |-> "ok", error |-> "", motivo |-> "",
              columnas |-> cols,
              filas |-> [i \in 1..Len(df) |->
                  [semana  |-> ValorEntero(df[i].Apodo),
                   idsocio |-> df[i].IDSocio,
                   campana |-> df[i].CAMPANA,
                   empresa |-> df[i].EMPRESA,
                   cultivo |-> df[i].CULTIVO,
                   cal     |-> [c \in CALIBRES |-> CeldaNumerica(df[i].Cal[c])],
                   des     |-> [d \in 1..Len(DESTRIOS) |->
                                   CeldaNumerica(df[i].Des[d])]]]]

\* One row of PesosFres: kilos (half kilograms) in one caliber column
FilaDB(campana, apodo, idsocio, cal, celda) ==
    [CAMPANA |-> campana, EMPRESA |-> 1, CULTIVO |-> "KAKIS",
     Apodo |-> apodo, IDSocio |-> idsocio,
     Cal |-> [c \in CALIBRES |-> IF c = cal THEN celda ELSE <<0>>],
     Des |-> [d \in 1..Len(DESTRIOS) |-> <<0>>]]

FilasDB ==
    << FilaDB(2026, <<"1">>, S1, 0, <<20>>),
       FilaDB(2026, <<"2">>, S2, 1, <<40>>),
       FilaDB(2026, <<"2">>, S1, 6, <<>>),
       FilaDB(2026, <<"S", "1">>, S1, 0, <<20>>),
       FilaDB(2026, <<>>, S2, 2, <<3>>),
       FilaDB(2025, <<"1">>, S2, 2, <<7>>) >>

\* The campaigns a run is asked for
CampanasPedidas == {2025, 2026}

InitFetch ==
    /\ pesosfres_db \in Secuencias(FilasDB)
    /\ extraccion = Pendiente
    /\ columnas = {}
    /\ pesos_df = <<>>
    /\ correspondencias_df = CorrCompleta
    /\ anecop_df = Anecop([w \in 1..MaxWeek |-> PreciosFixture])
    /\ precios_destrio = DestrioCero
    /\ bruto_campana = Importe(10000000)
    /\ otros_fondos = Importe(0)
    /\ fondo_gg_total = Importe(100000)
    /\ ratio_categoria_ii = Ratio(50)
    /\ calibre_map = Pendiente
    /\ resultado = Pendiente
    /\ deepp_columnas = ColumnasDeeppFixture
    /\ deepp_df = DeeppFixture
    /\ mnivel_df = MNivelFixture
    /\ bon_global_df = BonGlobalFixture
    /\ fondo_gg = Pendiente
    /\ anecop_cargado = Pendiente
    /\ SinRun
    /\ SinRepeticion
    /\ SinUI

\* pesos_df = extractor.fetch_pesosfres(campana, empresa, cultivo)
FetchPesosfres ==
    /\ extraccion.estado = "pendiente"
    /\ \E campana \in CampanasPedidas :
          extraccion' = fetch_pesosfres(pesosfres_db, campana, 1, "KAKIS")
    /\ columnas' = IF extraccion'.estado = "ok" THEN extraccion'.columnas ELSE columnas
    /\ pesos_df' = IF extraccion'.estado = "ok" THEN extraccion'.filas ELSE pesos_df
    /\ UNCHANGED <<correspondencias_df, anecop_df, precios_destrio, bruto_campana,
                   otros_fondos, fondo_gg_total, ratio_categoria_ii, calibre_map,
                   resultado, entradas_gg, fondo_gg, run_vars, det_vars,
                   anecop_cargado, pesosfres_db, ui_vars>>

\* build_calibre_mapping on the correspondence table, once the weight table
\* has been extracted
MapearCalibres == extraccion.estado = "ok" /\ BuildCalibreMapping

\* calcular_modelo_final on the extracted weight table
CalcularConExtraccion == extraccion.estado = "ok" /\ CalcularModeloFinal

NextFetch == FetchPesosfres \/ MapearCalibres \/ CalcularConExtraccion

SpecFetch == InitFetch /\ [][NextFetch]_vars

(***************************************************************************)
(* ui.py: the run button, the background worker and the poller of          *)
(* LiquidacionApp.  The form, configurar_logging, run and mostrar_resumen  *)
(* are the environment: each call of one of them returns or raises.        *)
(***************************************************************************)
\* The runs one window is asked for
MaxRuns == 4

\* What the handlers of the window leave alone
fuera_de_ui == <<entradas, entradas_gg, calibre_map, resultado, fondo_gg, run_vars,
                 det_vars, anecop_cargado, extr_vars>>

\* _set_running_state without the state change of the run button
set_running_state_sin_bloqueo(running) == [run_button |-> "normal", progress |-> running]

\* _set_running_state: the run button and the progress bar it leaves
set_running_state(running) == [run_button |-> IF running THEN "disabled" ELSE "normal", progress |-> running]

\* A poller that never schedules itself again
after_poll_nunca(cola) == 0

\* _poll_worker_queue: the calls of self.after(150, self._poll_worker_queue)
\* it makes, one when get_nowait raises Empty
after_poll(cola) == IF cola = <<>> THEN 1 ELSE 0

\* An except branch that only logs
mensajes_except_ninguno(i) == <<>>

\* worker: what its except branch puts on the queue
mensajes_except(i) == <<[status |-> "error", payload |-> i]>>

\* A worker thread that has not put its message yet
Vivo(h) == h.pc # "fin"

InitUI ==
    /\ SinUI
    /\ columnas = ColumnasMinusculas
    /\ pesos_df = PesosFixture
    /\ correspondencias_df = CorrFixture
    /\ anecop_df = <<>>
    /\ precios_destrio = DestrioCero
    /\ bruto_campana = Importe(10000000)
    /\ otros_fondos = Importe(0)
    /\ fondo_gg_total = Importe(100000)
    /\ ratio_categoria_ii = Ratio(50)
    /\ calibre_map = Pendiente
    /\ resultado = Pendiente
    /\ deepp_columnas = ColumnasDeeppFixture
    /\ deepp_df = DeeppFixture
    /\ mnivel_df = MNivelFixture
    /\ bon_global_df = BonGlobalFixture
    /\ fondo_gg = Pendiente
    /\ anecop_cargado = Pendiente
    /\ SinExtraccion
    /\ SinRun
    /\ SinRepeticion

\* _on_run: a press of the run button, which does nothing while the button
\* is disabled.  The form gives a config or raises.
OnRun ==
    /\ run_button = "normal"
    /\ Len(hilos) < MaxRuns
    /\ \E form \in {"config", "raises"} :
          IF form = "raises"
          THEN UNCHANGED ui_vars
          ELSE /\ run_button' = set_running_state(TRUE).run_button
               /\ progress' = set_running_state(TRUE).progress
               /\ hilos' = Append(hilos, [pc |-> "configurar_logging", entrego |-> ""])
               /\ polls' = polls + 1
               /\ UNCHANGED <<export_button, result_csv, worker_queue>>
    /\ UNCHANGED fuera_de_ui

\* worker, one step of thread i: configurar_logging(config.log_file) returns
\* or raises; run(config) returns or raises; the put of ("ok", output_csv),
\* the last statement of the try; the put of the except branch
WorkerStep(i) ==
    /\ \/ /\ hilos[i].pc = "configurar_logging"
          /\ \E pc \in {"run", "except"} : hilos' = [hilos EXCEPT ![i].pc = pc]
          /\ UNCHANGED worker_queue
       \/ /\ hilos[i].pc = "run"
          /\ \E pc \in {"put_ok", "except"} : hilos' = [hilos EXCEPT ![i].pc = pc]
          /\ UNCHANGED worker_queue
       \/ /\ hilos[i].pc = "put_ok"
          /\ worker_queue' = Append(worker_queue, [status |-> "ok", payload |-> i])
          /\ hilos' = [hilos EXCEPT ![i] = [pc |-> "fin", entrego |-> "ok"]]
       \/ /\ hilos[i].pc = "except"
          /\ worker_queue' = worker_queue \o mensajes_except(i)
          /\ hilos' = [hilos EXCEPT ![i] = [pc |-> "fin", entrego |-> "error"]]
    /\ UNCHANGED <<run_button, export_button, progress, result_csv, polls,
                   fuera_de_ui>>

\* _poll_worker_queue: one scheduled call.  _refresh_summary returns or
\* raises, and the export button is enabled after it returned.
PollWorkerQueue ==
    /\ polls > 0
    /\ polls' = polls - 1 + after_poll(worker_queue)
    /\ IF worker_queue = <<>>
       THEN UNCHANGED <<run_button, export_button, progress, result_csv, worker_queue>>
       ELSE /\ worker_queue' = Tail(worker_queue)
            /\ run_button' = set_running_state(FALSE).run_button
            /\ progress' = set_running_state(FALSE).progress
            /\ IF Head(worker_queue).status = "error"
               THEN UNCHANGED <<export_button, result_csv>>
               ELSE /\ result_csv' = <<Head(worker_queue).payload>>
                    /\ \E resumen \in {"returns", "raises"} :
                          export_button' = IF resumen = "returns" THEN "normal"
                                           ELSE export_button
    /\ UNCHANGED <<hilos, fuera_de_ui>>

\* _on_export_csv: a press of the export button copies the stored file
OnExportCsv ==
    /\ export_button = "normal"
    /\ UNCHANGED vars

NextUI ==
    \/ OnRun
    \/ \E i \in 1..MaxRuns : i <= Len(hilos) /\ WorkerStep(i)
    \/ PollWorkerQueue
    \/ OnExportCsv

SpecUI == InitUI /\ [][NextUI]_vars

\* The threads run and the event loop keeps firing the scheduled callback
SpecUIJusto ==
    /\ SpecUI
    /\ \A i \in 1..MaxRuns : WF_vars(i <= Len(hilos) /\ WorkerStep(i))
    /\ WF_vars(PollWorkerQueue)

(***************************************************************************)
(* Properties of calcular_modelo_final.                                    *)
(***************************************************************************)
Devuelto == resultado.estado = "ok"

\* The pairs <<i, j>> of rows of the returned price table that are the
\* grade I and the grade II row of one (week, group)
ParesDePrecios ==
    {par \in (1..Len(resultado.precios_df)) \X (1..Len(resultado.precios_df)) :
        /\ resultado.precios_df[par[1]].semana = resultado.precios_df[par[2]].semana
        /\ resultado.precios_df[par[1]].calibre = resultado.precios_df[par[2]].calibre
        /\ resultado.precios_df[par[1]].categoria = "I"
        /\ resultado.precios_df[par[2]].categoria = "II"}

PrecioI(par) == resultado.precios_df[par[1]].precio_final
PrecioII(par) == resultado.precios_df[par[2]].precio_final

\* The relative factor of the grade I row of a pair
RelI(par) ==
    LET fila == resultado.precios_df[par[1]]
    IN  resultado.rel_df[CHOOSE k \in 1..Len(resultado.rel_df) :
            ClaveSGC(resultado.rel_df[k]) = <<fila.semana, fila.calibre, "I">>].rel_final

\* The calibers that carry kilos in the weight table and have no row in the
\* mapping that was built
CalibresSinMapa ==
    {c \in CALIBRES :
        /\ \E i \in 1..Len(pesos_df) : pesos_df[i].cal[c] > 0
        /\ ~ \E j \in 1..Len(calibre_map.mapped) : calibre_map.mapped[j].calibre = c}

\* C1: a run whose weight table carries kilos in a caliber that the mapping
\* does not have ends in an error (never returns a result with those kilos
\* left out)
C1_MappingCompleteness ==
    (resultado.estado \in {"ok", "error"} /\ CalibresSinMapa # {})
        => resultado.estado = "error"

\* C2: a returned price table has, for every (week, group), the grade II
\* price at most the grade I price
C2_GradeOrdering ==
    Devuelto => \A par \in ParesDePrecios : DecLe(PrecioII(par), PrecioI(par))

\* C3 as stated: in a returned price table grade II equals grade I for some
\* (week, group) only when the ratio is 1
C3_EqualityOnlyRatioOne ==
    Devuelto =>
        \A par \in ParesDePrecios :
            PrecioII(par) = PrecioI(par) => ratio_categoria_ii = <<1, 1>>

\* C3 amended: in a returned price table grade II equals grade I for a
\* (week, group) exactly when the relative factor times the ratio rounds
\* (4 digits, half up) to the relative factor itself, which covers ratio 1,
\* a relative factor 0 and a small factor rounded up, or when the
\* coefficient is 0
C3_EqualityCases ==
    Devuelto =>
        \A par \in ParesDePrecios :
            PrecioII(par) = PrecioI(par)
                <=> \/ q4(DecMul(RelI(par), ratio_categoria_ii)) = RelI(par)
                    \/ resultado.coef = <<0, 1>>

\* A returned table where a pair is equal with ratio 0.5 through rounding,
\* relative factor and coefficient not 0
C3_Witness ==
    /\ Devuelto
    /\ ratio_categoria_ii = Ratio(50)
    /\ resultado.coef # <<0, 1>>
    /\ \E par \in ParesDePrecios :
          RelI(par) # <<0, 1>> /\ PrecioII(par) = PrecioI(par)

\* recon computed from the returned tables: the sum over the rows of merged
\* of kilos x final price, plus the reject revenue
ReconDevuelto ==
    DecAdd(
        DecSum([i \in 1..Len(resultado.merged) |->
            DecMul(Kilos(resultado.merged[i].kilos),
                   resultado.precios_df[
                       CHOOSE k \in 1..Len(resultado.precios_df) :
                           <<resultado.precios_df[k].semana,
                             resultado.precios_df[k].calibre,
                             resultado.precios_df[k].categoria>>
                           = ClaveSGC(resultado.merged[i])].precio_final)]),
        importe_destrios(pesos_df, precios_destrio))

ObjetivoCampana == DecSub(DecSub(bruto_campana, fondo_gg_total), otros_fondos)

\* C4: a run that returns a result has |recon - (bruto_campana -
\* fondo_gg_total - otros_fondos)| <= 0.01, and the descuadre it returns is
\* that mismatch
C4_Reconciliation ==
    Devuelto =>
        /\ DecLe(DecAbs(DecSub(ReconDevuelto, ObjetivoCampana)), Dec(1, 100))
        /\ resultado.descuadre = DecAbs(DecSub(ReconDevuelto, ObjetivoCampana))

\* A returned result whose mismatch is exactly 0.01
C4_Witness ==
    /\ Devuelto
    /\ DecAbs(DecSub(ReconDevuelto, ObjetivoCampana)) = Dec(1, 100)

\* The state holds the fixture of checks_minimos.py and the call was made
EsFixture ==
    /\ columnas = ColumnasMinusculas
    /\ pesos_df = PesosFixture
    /\ calibre_map = [estado |-> "ok", error |-> "",
                      mapped |-> << [calibre |-> 0, grupo |-> "AAA", categoria |-> "I"],
                                    [calibre |-> 1, grupo |-> "AAA", categoria |-> "II"] >>]
    /\ anecop_df = AnecopFixture
    /\ precios_destrio = DestrioCero
    /\ bruto_campana = Dec(100, 1)
    /\ otros_fondos = Dec(0, 1)
    /\ fondo_gg_total = Dec(1, 1)
    /\ ratio_categoria_ii = Dec(1, 2)
    /\ resultado.estado # "pendiente"

PrecioDe(semana, grupo, categoria) ==
    resultado.precios_df[CHOOSE k \in 1..Len(resultado.precios_df) :
        <<resultado.precios_df[k].semana, resultado.precios_df[k].calibre,
          resultado.precios_df[k].categoria>> = <<semana, grupo, categoria>>].precio_final

\* C9: on the fixture of checks_minimos.py calcular_modelo_final returns
\* coefficient 4.95, AAA grade I 4.95, AAA grade II 2.475 and descuadre 0
C9_Fixture ==
    EsFixture =>
        /\ Devuelto
        /\ resultado.coef = Dec(495, 100)
        /\ PrecioDe(1, "AAA", "I") = Dec(495, 100)
        /\ PrecioDe(1, "AAA", "II") = Dec(2475, 1000)
        /\ resultado.descuadre = Dec(0, 1)

\* C10: in a returned price table every grade II price is the grade I price
\* of its (week, group) times the ratio, rounded to 4 fractional digits
C10_RatioOfFinalPrice ==
    Devuelto =>
        \A par \in ParesDePrecios :
            PrecioII(par) = q4(DecMul(PrecioI(par), ratio_categoria_ii))

(***************************************************************************)
(* Properties of calcular_fondo_globalgap.                                 *)
(***************************************************************************)
FondoDevuelto == fondo_gg.estado = "ok"

\* The grower ids of the weight table
SociosPesos == {str_strip(pesos_df[i].idsocio) : i \in 1..Len(pesos_df)}

\* Row i of deepp_df is in the scope of the run: for each of campana,
\* empresa and cultivo that both tables carry, it has the value of the first
\* row of the weight table
EnAmbito(i) ==
    \A k \in 1..Len(CamposAmbito) :
        (/\ CamposAmbito[k] \in columnas
         /\ CamposAmbito[k] \in deepp_columnas
         /\ pesos_df # <<>>)
            => deepp_df[i][CamposAmbito[k]] = pesos_df[1][CamposAmbito[k]]

\* The rows of deepp_df of a grower that are in scope
FilasDeSocio(id) ==
    {i \in 1..Len(deepp_df) : str_strip(deepp_df[i].idsocio) = id /\ EnAmbito(i)}

\* The grower's resolved certification label is "GLOBAL GAP" once trimmed
\* and upper-cased: the label of the grower's first row in scope
Certificado(id) ==
    /\ FilasDeSocio(id) # {}
    /\ LET first == CHOOSE i \in FilasDeSocio(id) : \A j \in FilasDeSocio(id) : i <= j
       IN  str_upper(str_strip(fillna(deepp_df[first].certificacion))) = GLOBAL_GAP

\* The distinct non-empty values a grower's rows in scope carry in a column
Niveles(id) ==
    {str_strip(fillna(deepp_df[i].nivelglobal)) : i \in FilasDeSocio(id)} \ {<<>>}
Etiquetas(id) ==
    {str_upper(str_strip(fillna(deepp_df[i].certificacion))) : i \in FilasDeSocio(id)}
        \ {<<>>}

SociosDeepp == {str_strip(deepp_df[i].idsocio) : i \in 1..Len(deepp_df)}
ConflictoDeNivel == \E id \in SociosDeepp : Cardinality(Niveles(id)) > 1

\* The ids of the per-grower audit rows and of the exception list
Financiados ==
    {fondo_gg.audit_globalgap_socios_df[i].idsocio :
        i \in 1..Len(fondo_gg.audit_globalgap_socios_df)}
FilasSinGG ==
    {i \in 1..Len(fondo_gg.audit_df) : fondo_gg.audit_df[i].tipo = "socio_sin_gg"}
Excepciones == {fondo_gg.audit_df[i].id : i \in FilasSinGG}

\* C5: when calcular_fondo_globalgap returns, the growers of the per-grower
\* audit rows are the growers of the weight table whose resolved label,
\* trimmed and upper-cased, is "GLOBAL GAP", and the fund total is the sum of
\* fondo_soc over those rows
C5_CertificationExclusivity ==
    FondoDevuelto =>
        /\ Financiados = {id \in SociosPesos : Certificado(id)}
        /\ fondo_gg.fondo_total =
               DecSumN([i \in 1..Len(fondo_gg.audit_globalgap_socios_df) |->
                           fondo_gg.audit_globalgap_socios_df[i].fondo_soc])

\* A return where a grower whose label is not written "GLOBAL GAP" is funded
\* after normalisation and another grower with a label is not funded
C5_Witness ==
    /\ FondoDevuelto
    /\ \E i \in 1..Len(deepp_df) :
          /\ str_strip(deepp_df[i].idsocio) \in Financiados
          /\ deepp_df[i].certificacion # GLOBAL_GAP
          /\ Certificado(str_strip(deepp_df[i].idsocio))
    /\ \E id \in SociosPesos \ Financiados : Etiquetas(id) # {}
    /\ fondo_gg.fondo_total \notin {NaN, <<0, 1>>}

\* C6: when calcular_fondo_globalgap returns, every grower of the weight
\* table is in exactly one of the per-grower audit rows and the socio_sin_gg
\* rows, and a grower has at most one socio_sin_gg row
C6_GrowersAccounted ==
    FondoDevuelto =>
        /\ Financiados \cup Excepciones = SociosPesos
        /\ Financiados \cap Excepciones = {}
        /\ Cardinality(FilasSinGG) = Cardinality(Excepciones)

\* A return with a funded grower and a grower in the exception list
C6_Witness ==
    /\ FondoDevuelto
    /\ Financiados # {}
    /\ Excepciones # {}
    /\ Cardinality(SociosPesos) >= 2

ColumnasCompletas ==
    /\ ColumnasCalibres \cup {"idsocio"} \subseteq {ColLower(c) : c \in columnas}
    /\ ColumnasDeepp \subseteq {ColLower(c) : c \in deepp_columnas}

NivelDe(id) ==
    LET first == CHOOSE i \in FilasDeSocio(id) : \A j \in FilasDeSocio(id) : i <= j
    IN  str_strip(fillna(deepp_df[first].nivelglobal))

\* The rows of the quality-index table of a level
FilasDeNivel(nivel) ==
    {m \in 1..Len(mnivel_df) : str_strip(fillna(mnivel_df[m].nivel)) = nivel}

\* Every certified grower's level has an index: one or more rows, all with
\* the same index
IndicesDefinidos ==
    \A id \in {s \in SociosPesos : Certificado(s)} :
        /\ FilasDeNivel(NivelDe(id)) # {}
        /\ \A m, n \in FilasDeNivel(NivelDe(id)) :
              mnivel_df[m].indice = mnivel_df[n].indice

\* kilos x bonus rate x index of one certified grower
FondoDeSocio(id) ==
    DecMul(DecMul(DecSum(Flatten([i \in 1..Len(pesos_df) |->
                      IF str_strip(pesos_df[i].idsocio) = id
                      THEN <<Kilos(SumInt([c \in 1..NumCalibres |-> pesos_df[i].cal[c - 1]]))>>
                      ELSE <<>>])),
                  IF bon_global_df = <<>> THEN <<0, 1>>
                  ELSE parse_decimal(bon_global_df[1].bonificacion)),
           parse_decimal(mnivel_df[CHOOSE m \in FilasDeNivel(NivelDe(id)) : TRUE].indice))

\* C8: the fund total is the sum over the certified growers of the weight
\* table, each counted once, of kilos x bonus rate x index of the level
C8_FundCountsEachGrowerOnce ==
    (FondoDevuelto /\ IndicesDefinidos) =>
        fondo_gg.fondo_total =
            DecSum(MapSeq(SortedStr({id \in SociosPesos : Certificado(id)}), FondoDeSocio))

(***************************************************************************)
(* Error handling of calcular_modelo_final.                                *)
(***************************************************************************)
Terminado == resultado.estado \in {"ok", "error"}

\* The weeks in which the weight table has kilos in a mapped caliber
SemanasConKilos ==
    {pesos_df[i].semana : i \in
        {r \in 1..Len(pesos_df) :
            \E j \in 1..Len(calibre_map.mapped) :
                pesos_df[r].cal[calibre_map.mapped[j].calibre] > 0}}

SemanasAnecop == {anecop_df[i].semana : i \in 1..Len(anecop_df)}

\* The call gets past the column checks and the merge with the mapping
EntradaAceptada ==
    /\ Requeridas \subseteq columnas
    /\ ColumnasMelt \subseteq columnas
    /\ \A i, j \in 1..Len(calibre_map.mapped) :
          calibre_map.mapped[i].calibre = calibre_map.mapped[j].calibre => i = j

GruposEntregados ==
    {sg \in SemanasConKilos \X Range(GRUPOS_COMERCIALES) :
        \E r \in 1..Len(pesos_df), j \in 1..Len(calibre_map.mapped) :
            /\ pesos_df[r].semana = sg[1]
            /\ calibre_map.mapped[j].grupo = sg[2]
            /\ pesos_df[r].cal[calibre_map.mapped[j].calibre] > 0}

\* The (week, group) has no reference data: no row, or a row with price 0
SinReferencia(sg) ==
    \A i \in 1..Len(anecop_df) :
        (anecop_df[i].semana = sg[1] /\ anecop_df[i].grupo = sg[2])
            => parse_decimal(anecop_df[i].precio_base) = <<0, 1>>

\* C12: a call on a weight table with positive commercial kilos in a
\* (week, group) that has no reference data (no row, or a row with price 0)
\* ends in an error
C12_MissingReferenceIsFatal ==
    (Terminado /\ \E sg \in GruposEntregados : SinReferencia(sg))
        => resultado.estado = "error"

\* The column checks and the melt of the call pass
ColumnasAceptadas ==
    Requeridas \subseteq columnas /\ ColumnasMelt \subseteq columnas

\* Two rows of the mapping have the same caliber / two rows of the
\* reference table have the same (week, group)
MapaConDuplicados ==
    \E i, j \in 1..Len(calibre_map.mapped) :
        i # j /\ calibre_map.mapped[i].calibre = calibre_map.mapped[j].calibre
AnecopConDuplicados ==
    \E i, j \in 1..Len(anecop_df) :
        /\ i # j
        /\ anecop_df[i].semana = anecop_df[j].semana
        /\ anecop_df[i].grupo = anecop_df[j].grupo

EnOrden ==
    /\ Len(traza) <= Len(Etapas)
    /\ \A i \in 1..Len(traza) : traza[i] = Etapas[i]

\* C14: the stages of run are entered in the order load, fund, audit check,
\* price allocation, export; once a stage has raised no later stage is
\* entered, so export is not entered and no output file is written; and an
\* output file exists only after export was entered with no exception before
C14_AllOrNothing ==
    /\ EnOrden
    /\ run_error # "" =>
          /\ etapa = Fin
          /\ "exportar" \notin Range(traza)
          /\ archivos = {}
    /\ archivos # {} => (run_error = "" /\ traza = Etapas)

\* A run whose audit stage raised after the load and the fund stages
\* completed: no file is written
C14_Witness ==
    /\ traza = <<"cargar", "fondo", "auditoria">>
    /\ run_error = "KeyError"
    /\ fondo_gg.estado = "ok"
    /\ archivos = {}

C15_WitnessError ==
    /\ repeticion.estado = "fondo"
    /\ repeticion.seed_1 # hash_seed
    /\ fondo_gg.estado = "error"

(***************************************************************************)
(* The exported price table.                                               *)
(***************************************************************************)
Exportado == archivos = ArchivosExportar

\* The total a reader of the Perceco file recomputes: the kilos of every
\* (week, group, grade) times the exported price, plus the reject revenue
ReconExportado ==
    Recon(resultado.merged, perceco_csv, resultado.importe_destrios)

\* C16: for every run that returns and is exported, the total recomputed
\* from the exported price table and the delivered kilos is within 0.01 of
\* the recon of the engine
C16_ExportedTableReconciles ==
    Exportado =>
        DecLe(DecAbs(DecSub(ReconExportado, resultado.recon)), Tolerancia)

\* An exported run whose file carries a price other than the engine's
C16_RoundedPrices ==
    /\ Exportado
    /\ \E k \in 1..Len(perceco_csv) :
          perceco_csv[k].precio_final # resultado.precios_df[k].precio_final

(***************************************************************************)
(* The shape of the price table.                                           *)
(***************************************************************************)
\* The key of row k of the returned price table
ClavePrecio(k) ==
    <<resultado.precios_df[k].semana, resultado.precios_df[k].calibre,
      resultado.precios_df[k].categoria>>

\* The rows of the returned price table with a given key
FilasDeClave(semana, grupo, categoria) ==
    {k \in 1..Len(resultado.precios_df) : ClavePrecio(k) = <<semana, grupo, categoria>>}

\* The place of a group name and of a grade name in the order of text
OrdenGrupo(g) == CASE g = "A" -> 1 [] g = "AA" -> 2 [] g = "AAA" -> 3
OrdenCategoria(c) == CASE c = "I" -> 1 [] c = "II" -> 2

\* Row k comes before row l in the order (week, group, grade)
AntesQue(k, l) ==
    \/ ClavePrecio(k)[1] < ClavePrecio(l)[1]
    \/ /\ ClavePrecio(k)[1] = ClavePrecio(l)[1]
       /\ OrdenGrupo(ClavePrecio(k)[2]) < OrdenGrupo(ClavePrecio(l)[2])
    \/ /\ ClavePrecio(k)[1] = ClavePrecio(l)[1]
       /\ ClavePrecio(k)[2] = ClavePrecio(l)[2]
       /\ OrdenCategoria(ClavePrecio(k)[3]) < OrdenCategoria(ClavePrecio(l)[3])

\* C17: the returned price table has, for every (week, group) of the
\* reference table, exactly one grade I row and one grade II row, whether or
\* not the week has delivered kilos; it has no other row, no key twice, and
\* its rows are in increasing order of (week, group, grade)
C17_OneRowPerKey ==
    Devuelto =>
        /\ \A i \in 1..Len(anecop_df) : \A c \in Range(CATEGORIAS_COMERCIALES) :
              Cardinality(FilasDeClave(anecop_df[i].semana, anecop_df[i].grupo, c)) = 1
        /\ \A k \in 1..Len(resultado.precios_df) :
              /\ \E i \in 1..Len(anecop_df) :
                    /\ anecop_df[i].semana = ClavePrecio(k)[1]
                    /\ anecop_df[i].grupo = ClavePrecio(k)[2]
              /\ ClavePrecio(k)[3] \in Range(CATEGORIAS_COMERCIALES)
        /\ \A k, l \in 1..Len(resultado.precios_df) : k < l => AntesQue(k, l)

\* A returned table that prices two weeks, one of them without delivered
\* kilos, and more than one group
C17_Witness ==
    /\ Devuelto
    /\ SemanasAnecop \ SemanasConKilos # {}
    /\ Cardinality(SemanasAnecop) > 1
    /\ Len(resultado.precios_df) >= 8

(***************************************************************************)
(* The reference week and the reference base.                              *)
(***************************************************************************)
\* The weeks that are in the reference table and have commercial kilos
SemanasComunes == SemanasConKilos \cap SemanasAnecop

\* The smallest of them
PrimeraComun ==
    CHOOSE sem \in SemanasComunes : \A otra \in SemanasComunes : sem <= otra

\* The failures of calcular_modelo_final that precede the computation of the
\* relative factors
AntesDeRel ==
    {"columnas minimas", "melt", "calibre_map", "semanas sin ANECOP",
     "sin semana de referencia", "iloc", "precio AAA <= 0"}

\* C19: a call that returns used as reference week the smallest week that
\* is both in the reference table and among the weeks with commercial
\* kilos; when there is no such week the call raises, at a point before any
\* relative factor is computed
C19_ReferenceWeek ==
    Terminado =>
        /\ Devuelto =>
              /\ SemanasComunes # {}
              /\ resultado.semana_ref = PrimeraComun
        /\ SemanasComunes = {} =>
              /\ resultado.estado = "error"
              /\ resultado.motivo \in AntesDeRel
              /\ resultado.rel_df = <<>>
        /\ resultado.motivo = "sin semana de referencia" => SemanasComunes = {}

\* A returned call whose reference week is not the first week of the
\* reference table
C19_Witness ==
    /\ Devuelto
    /\ \E sem \in SemanasAnecop : sem < resultado.semana_ref

\* A returned call with two common weeks
C19_WitnessTwoWeeks ==
    /\ Devuelto
    /\ Cardinality(SemanasComunes) > 1

\* A call rejected because no week is common
C19_WitnessAbort ==
    /\ resultado.estado = "error"
    /\ resultado.motivo = "sin semana de referencia"
    /\ SemanasAnecop # {}

\* The call reaches the statement that reads the reference base
LlegaAReferencia ==
    /\ EntradaAceptada
    /\ SemanasConKilos \subseteq SemanasAnecop
    /\ SemanasComunes # {}

\* The AAA rows of the reference week
FilasAAA ==
    SelectSeq(anecop_df, LAMBDA row : row.semana = PrimeraComun /\ row.grupo = "AAA")

C20_WitnessZero ==
    /\ resultado.estado = "error"
    /\ resultado.motivo = "precio AAA <= 0"
    /\ LlegaAReferencia
C20_WitnessReturned ==
    /\ Devuelto
    /\ \E k \in 1..Len(resultado.rel_df) : resultado.rel_df[k].rel_final # <<1, 1>>

(***************************************************************************)
(* The scale of the final prices.                                          *)
(***************************************************************************)
\* parse_decimal(value).quantize(Decimal("1").scaleb(-decimals),
\* rounding=ROUND_HALF_UP)
quantize_half_up(value, decimals) ==
    LET scale == Pow10(decimals)
        g     == GCD(scale, parse_decimal(value)[2])
    IN  Dec(RoundHalfUp(parse_decimal(value)[1] * (scale \div g),
                        parse_decimal(value)[2] \div g), scale)

\* The numbers of fractional digits a price table may be rounded to
Escalas == 0..6

\* The relative factor of row k of the returned price table
RelDePrecio(k) ==
    resultado.rel_df[CHOOSE r \in 1..Len(resultado.rel_df) :
        ClaveSGC(resultado.rel_df[r]) = ClavePrecio(k)].rel_final

\* C21: there is one number of fractional digits such that every final price
\* of a returned table is relative factor x coefficient rounded half-up to
\* that many digits, and the coefficient is net target / weighted base,
\* not rounded
C21_FinalPriceRounded ==
    Devuelto =>
        /\ \E decimals \in Escalas :
              \A k \in 1..Len(resultado.precios_df) :
                  resultado.precios_df[k].precio_final
                      = quantize_half_up(DecMul(RelDePrecio(k), resultado.coef), decimals)
        /\ DecMul(resultado.coef, resultado.total_rel) = resultado.neto_obj

\* A returned table with a price that is the exact product of relative
\* factor and coefficient and has no finite decimal expansion
C21_UnroundedPrice ==
    /\ Devuelto
    /\ \E k \in 1..Len(resultado.precios_df) :
          /\ resultado.precios_df[k].precio_final
                = DecMul(RelDePrecio(k), resultado.coef)
          /\ resultado.precios_df[k].precio_final[2] % 3 = 0

(***************************************************************************)
(* The certification record of a grower with several rows.                 *)
(***************************************************************************)
\* The normalised label and level of row i of deepp_df
EtiquetaDeFila(i) == str_upper(str_strip(fillna(deepp_df[i].certificacion)))
NivelDeFila(i) == str_strip(fillna(deepp_df[i].nivelglobal))

\* The first non-empty label and the first non-empty level among the rows
\* in scope of a grower, the empty text when there is none
PrimeraEtiqueta(id) ==
    LET filas == {i \in FilasDeSocio(id) : EtiquetaDeFila(i) # <<>>}
    IN  IF filas = {} THEN <<>>
        ELSE EtiquetaDeFila(CHOOSE i \in filas : \A j \in filas : i <= j)
PrimerNivel(id) ==
    LET filas == {i \in FilasDeSocio(id) : NivelDeFila(i) # <<>>}
    IN  IF filas = {} THEN <<>>
        ELSE NivelDeFila(CHOOSE i \in filas : \A j \in filas : i <= j)

\* C22: when calcular_fondo_globalgap returns, the funded growers are the
\* growers of the weight table whose first non-empty label is the accepted
\* one, and the level of a funded grower is the first non-empty level of
\* the grower's rows
C22_FirstNonEmpty ==
    FondoDevuelto =>
        /\ Financiados = {id \in SociosPesos : PrimeraEtiqueta(id) = GLOBAL_GAP}
        /\ \A r \in 1..Len(fondo_gg.audit_globalgap_socios_df) :
              fondo_gg.audit_globalgap_socios_df[r].nivelglobal
                  = PrimerNivel(fondo_gg.audit_globalgap_socios_df[r].idsocio)

\* A return where a grower of the weight table has an empty label in the
\* first row in scope and the accepted label in a later one, and is listed
\* as not certified
C22_EmptyFirstLabel ==
    /\ FondoDevuelto
    /\ \E id \in SociosPesos :
          /\ PrimeraEtiqueta(id) = GLOBAL_GAP
          /\ ~ Certificado(id)
          /\ id \in Excepciones
          /\ id \notin Financiados

(***************************************************************************)
(* The rate a certified grower is charged.                                 *)
(***************************************************************************)
\* The rows of BonGlobal keyed by a level
FilasDeTasa(nivel) ==
    {b \in 1..Len(bon_global_df) :
        /\ "categoria" \in DOMAIN bon_global_df[b]
        /\ str_strip(fillna(bon_global_df[b].categoria)) = nivel}

\* BonGlobal gives a rate for each level / one flat rate
TasaPorNivel == FilasDeTasa(N1) \cup FilasDeTasa(N2) # {}
TasaPlana == Len(bon_global_df) = 1 /\ ~ TasaPorNivel

\* The euro-per-kilogram rate of a level: the rate keyed by the level when
\* BonGlobal has one, else the flat rate times the index of the level
TasaEfectiva(nivel) ==
    IF FilasDeTasa(nivel) # {}
    THEN parse_decimal(bon_global_df[CHOOSE b \in FilasDeTasa(nivel) : TRUE].bonificacion)
    ELSE DecMul(parse_decimal(bon_global_df[1].bonificacion),
                parse_decimal(mnivel_df[CHOOSE m \in FilasDeNivel(nivel) : TRUE].indice))

\* C23: when calcular_fondo_globalgap returns on a BonGlobal table that
\* gives a rate for each level or one flat rate, every certified grower is
\* charged kilos x the rate keyed by the grower's level when the table has
\* one, and else kilos x flat rate x index of the level
C23_BothRateForms ==
    (FondoDevuelto /\ IndicesDefinidos /\ (TasaPorNivel \/ TasaPlana)) =>
        \A r \in 1..Len(fondo_gg.audit_globalgap_socios_df) :
            fondo_gg.audit_globalgap_socios_df[r].fondo_soc
                = DecMul(fondo_gg.audit_globalgap_socios_df[r].kilos_comerciales,
                         TasaEfectiva(fondo_gg.audit_globalgap_socios_df[r].nivelglobal))

\* A return on a table with a rate for each level where a funded grower is
\* charged the rate of the first row times the index and not the rate of
\* the grower's level
C23_FirstRowRate ==
    /\ FondoDevuelto
    /\ TasaPorNivel
    /\ \E r \in 1..Len(fondo_gg.audit_globalgap_socios_df) :
          LET fila == fondo_gg.audit_globalgap_socios_df[r]
          IN  /\ FilasDeTasa(fila.nivelglobal) # {}
              /\ fila.fondo_soc = DecMul(DecMul(fila.kilos_comerciales,
                                                parse_decimal(bon_global_df[1].bonificacion)),
                                         fila.indice)
              /\ fila.fondo_soc # DecMul(fila.kilos_comerciales,
                                         TasaEfectiva(fila.nivelglobal))

\* A return on a table with one flat rate where a funded grower is charged
\* flat rate x index
C23_FlatRate ==
    /\ FondoDevuelto
    /\ IndicesDefinidos
    /\ TasaPlana
    /\ \E r \in 1..Len(fondo_gg.audit_globalgap_socios_df) :
          LET fila == fondo_gg.audit_globalgap_socios_df[r]
          IN  /\ fila.indice # <<1, 1>>
              /\ fila.fondo_soc = DecMul(fila.kilos_comerciales,
                                         TasaEfectiva(fila.nivelglobal))

(***************************************************************************)
(* Properties of cargar_anecop.                                            *)
(***************************************************************************)
AnecopCargado == anecop_cargado.estado = "ok"

\* The weeks of the rows read from the file
SemanasDelArchivo == {anecop_excel[i].semana : i \in 1..Len(anecop_excel)}

\* The ANECOP sub-grades of a commercial group
SubGrados(g) ==
    CASE g = "AAA" -> <<"2/3">>
      [] g = "AA"  -> <<"4", "5">>
      [] g = "A"   -> <<"6", "7/8", "9/10">>

\* The kilos and the price the file gives for a (week, sub-grade): those of
\* its last row, an empty cell and a missing row counting as 0
CeldaCruda(w, sg, campo) ==
    LET hits == {i \in 1..Len(anecop_excel) :
                    anecop_excel[i].semana = w /\ anecop_excel[i].grupo_anecop = sg}
    IN  IF hits = {} THEN <<0, 1>>
        ELSE LET v == anecop_excel[CHOOSE i \in hits : \A j \in hits : j <= i][campo]
             IN  IF v = None THEN <<0, 1>> ELSE v

\* The total kilos and the total of kilos x price of a (week, group)
KgDeGrupo(w, g) ==
    DecSum([k \in 1..Len(SubGrados(g)) |-> CeldaCruda(w, SubGrados(g)[k], "kg")])
ValorDeGrupo(w, g) ==
    DecSum([k \in 1..Len(SubGrados(g)) |->
               DecMul(CeldaCruda(w, SubGrados(g)[k], "kg"),
                      CeldaCruda(w, SubGrados(g)[k], "valor_fruta"))])

\* The rows emitted for a (week, group)
FilasEmitidas(w, g) ==
    {k \in 1..Len(anecop_cargado.filas) :
        anecop_cargado.filas[k].semana = w /\ anecop_cargado.filas[k].grupo = g}

C24_WitnessEmpty ==
    /\ anecop_cargado.estado = "error"
    /\ anecop_excel = <<>>

(***************************************************************************)
(* The commercial kilos of the fund and of the allocation.                 *)
(***************************************************************************)
\* The sum over the growers of kilos_socios_df of kilos_comerciales, as
\* calcular_fondo_globalgap computes it on the weight table
KilosComercialesFondo ==
    DecSum(MapSeq(kilos_socios_df(pesos_df), LAMBDA row : row.kilos_comerciales))

\* C25: for a weight table and a mapping on which calcular_modelo_final
\* returns, the commercial kilos calcular_fondo_globalgap sums over the
\* growers equal the metric total_kg_comerciales
C25_SameCommercialKilos ==
    Devuelto => KilosComercialesFondo = Kilos(resultado.total_kg_comerciales)

\* A returned result on a weight table with kilos in a caliber the mapping
\* does not have: the fund counts them, the metric does not
C25_UnmappedKilos ==
    /\ Devuelto
    /\ CalibresSinMapa # {}
    /\ DecLt(Kilos(resultado.total_kg_comerciales), KilosComercialesFondo)

(***************************************************************************)
(* The sign of the final prices.                                           *)
(***************************************************************************)
\* C26: every final price of a returned table is >= 0
C26_NonNegativePrices ==
    Devuelto =>
        \A k \in 1..Len(resultado.precios_df) :
            DecLe(<<0, 1>>, resultado.precios_df[k].precio_final)

\* A returned result for a gross revenue smaller than bonus fund + other
\* funds + reject revenue, with a negative price for a delivered group
C26_NegativePrice ==
    /\ Devuelto
    /\ DecLt(bruto_campana,
             DecAdd(DecAdd(fondo_gg_total, otros_fondos), resultado.importe_destrios))
    /\ DecLt(resultado.coef, <<0, 1>>)
    /\ \E k \in 1..Len(resultado.precios_df) :
          /\ DecLt(resultado.precios_df[k].precio_final, <<0, 1>>)
          /\ \E i \in 1..Len(resultado.merged) :
                ClaveSGC(resultado.merged[i]) = ClavePrecio(k)

(***************************************************************************)
(* The rounded weighted base and validar_cuadre.                           *)
(***************************************************************************)
\* Some row of the weight table has a weight that is not a whole number of
\* kilograms in a caliber of the mapping
PesoFraccionario ==
    \E i \in 1..Len(pesos_df) : \E j \in 1..Len(calibre_map.mapped) :
        pesos_df[i].cal[calibre_map.mapped[j].calibre] % 2 = 1

\* C27: no call that passes the week, reference and weighted-base
\* validations is failed by validar_cuadre
C27_CuadreNeverRaises ==
    Terminado => resultado.motivo # "descuadre"

\* A call on a weight table with a fractional weight that passes every
\* validation before validar_cuadre and is failed by it
C27_RoundedBaseFails ==
    /\ resultado.estado = "error"
    /\ resultado.error = "ValidationError"
    /\ resultado.motivo = "descuadre"
    /\ EntradaAceptada
    /\ PesoFraccionario
    /\ SemanasConKilos # {} /\ SemanasConKilos \subseteq SemanasAnecop

(***************************************************************************)
(* The weight table of fetch_pesosfres in calcular_modelo_final.           *)
(***************************************************************************)
Extraido == extraccion.estado = "ok"

\* C28: every weight table fetch_pesosfres returns is accepted by
\* validar_columnas_minimas_pesosfres
C28_ExtractedTableAccepted ==
    Extraido => validar_columnas_minimas_pesosfres(columnas)

\* An extracted table with kilos in mapped calibers, in weeks that all
\* have reference prices, on which calcular_modelo_final raises at its
\* first statement
C28_ExtractedTableRejected ==
    /\ Extraido
    /\ columnas = extraccion.columnas
    /\ "cal0" \in columnas /\ "Cal0" \notin columnas
    /\ pesos_df = extraccion.filas
    /\ resultado.estado = "error"
    /\ resultado.error = "ValidationError"
    /\ resultado.motivo = "columnas minimas"
    /\ SemanasConKilos # {} /\ SemanasConKilos \subseteq SemanasAnecop

(***************************************************************************)
(* The run button, the worker and the poller of LiquidacionApp.            *)
(***************************************************************************)
HilosVivos == {i \in 1..Len(hilos) : Vivo(hilos[i])}

\* The workers that have not put their message and the messages that have
\* not been consumed
EnVuelo == Cardinality(HilosVivos) + Len(worker_queue)

Reposo ==
    /\ EnVuelo = 0
    /\ run_button = "normal"
    /\ progress = FALSE
    /\ polls = 0

\* The poller takes an "error" message
ConsumeError ==
    /\ worker_queue # <<>>
    /\ Head(worker_queue).status = "error"
    /\ worker_queue' = Tail(worker_queue)

Entrega(i) == Vivo(hilos[i]) /\ ~ Vivo(hilos'[i])

=============================================================================
